---- MODULE Spec2Model ----
(***************************************************************************)
(* Outreach Worker Engine of gramsender-desktop (python-backend/app).      *)
(*                                                                         *)
(* Spec      the Worker Registry (worker_manager.py), the Campaign Poller  *)
(*           (campaign_poller.py) and the start / stop / delete routes     *)
(*           (routes/workers.py), with every worker thread reduced to the  *)
(*           callbacks it invokes on its launcher's closures.              *)
(* PollFairSpec the Campaign Poller alone with its workers, one account    *)
(*           assigned and holding a password, the loop and the threads     *)
(*           scheduled fairly.                                             *)
(* LifeSpec  the registry under the launch, stop and delete routes, with   *)
(*           the Reply Monitor (reply_monitor.py) reading it.              *)
(* RunSpec   InstagramWorkerThread.run (instagram_worker.py) for one       *)
(*           worker, statement group by statement group.                   *)
(* FollowSpec the same run for a hashtag worker with several follow-ups.   *)
(* PoolSpec  the same run for several concurrent workers that share the    *)
(*           class-level processed-target set.                             *)
(* ChalSpec  the verification wait of on_request_challenge_code and the    *)
(*           registry operations on pending_challenges.                    *)
(* NotifySpec the same wait with the need_2fa event, for the callback of   *)
(*           either launcher, statement by statement.                      *)
(* LoginSpec InstagramLoginHelper (instagram_login.py) for one account:     *)
(*           the persisted fingerprint files and the stages of login().    *)
(* SpinSpec  apply_spintax (instagram_worker.py) on every short template,  *)
(*           applied once and then again to its own output.                *)
(* RetrySpec retry_on_login_required (instagram_worker.py), one call.      *)
(* LockSpec  the threads of the process around the processed-target lock   *)
(*           and the registry mutex.                                       *)
(* FilterSpec the filters of run() on one target, up to the delivery.      *)
(* LeadSpec  get_users_from_custom_list (instagram_worker.py) over one     *)
(*           imported list, lookup by lookup.                              *)
(* CounterSpec the on_message_sent callbacks of concurrent workers of one  *)
(*           campaign, around the stored messages_sent counter.            *)
(* RemoveSpec the launched workers with their challenge callbacks, their   *)
(*           completion and the stop, delete and challenge-code routes.    *)
(* ReachSpec the way of concurrent workers, of either kind of target       *)
(*           source, through one list of targets: handle lookup, the check *)
(*           on the processed set, the work on the target.                 *)
(* ReplySpec the passes of the Reply Monitor over one conversation of one  *)
(*           account.                                                      *)
(* DeliverSpec the login of a run and the statements of run() between the  *)
(*           composed message and its delivery, target after target.       *)
(***************************************************************************)
EXTENDS Integers, Sequences, FiniteSets, TLC

\* ------------------------------------------------------------------ bounds
NumAccounts == 2
NumCampaigns == 1
MaxWorkers == 2
MaxTargets == 3
MaxQuota == 2
MaxFollowUps == 1
MaxFollowUpsTried == 2
TickSeconds == 100
ChallengeTimeout == 300
MaxSendRetries == 2
NumProfiles == 2
MaxBioLen == 2
MaxKeywords == 2
MaxLeads == 30
MaxDeliveries == 3
MaxSent == 3
MaxMessages == 3
MaxPasses == 3
MaxTemplateLen == 5
LoginMaxRetries == 3
ANTI_DETECTION_ENABLED == TRUE

Accounts == 1..NumAccounts
Campaigns == 1..NumCampaigns
WorkerIds == 1..MaxWorkers
NoCampaign == 0
NoWorker == 0
Targets == 1..MaxTargets

VARIABLES
    \* ---- stores (DatabaseService)
    campaign_status,          \* campaigns[cid]["status"]
    \* ---- WorkerManager and the worker_info dicts of the launchers
    worker_info,              \* worker id -> worker_info dict
    active_workers,           \* keys of active_workers (= keys of worker_threads)
    thread_state,             \* "none" | "started" | "running" | "finished"
    running,                  \* InstagramWorkerThread.running
    next_id,                  \* next fresh worker id (uuid4)
    \* ---- run_campaign_poller locals
    poll_pc,                  \* "sleep" | "fetched" | "visit" | "poststart"
    running_campaigns,        \* snapshot of the running campaign ids
    active_combos,            \* snapshot of combos with a starting/running worker
    todo,                     \* (campaign, username) pairs still to visit
    active_campaign_accounts, \* tracking set of recently launched combos
    poll_worker,              \* worker launched by the visit in progress
    poll_account,             \* what db.get_account returned to the last visit
    poll_started,             \* combos -> workers started in this cycle
    poll_clean,               \* registry was empty when the cycle began
    poll_n,                   \* accounts assigned to the campaigns of this cycle
    poll_errors,              \* error events broadcast in this cycle
    \* ---- the event-loop thread inside a route handler
    route_pc,                 \* <<"idle">> | <<"poststart", w>> | <<"stop1", w>> | <<"stop2", w>>
    \* ---- InstagramWorkerThread: constructor arguments and run() locals
    run_pc,                   \* position of each thread inside run()
    target_mode,              \* 0 hashtag, 1 followers, 2 following, 3 leads, else invalid
    message_count,            \* campaign quota
    follow_ups,               \* number of configured follow-ups
    fu_log,                   \* outcome of each follow-up of the last target sent
    users,                    \* resolved targets, in iteration order
    idx,                      \* targets the for loop has taken so far
    successful_messages,      \* run(): successful_messages
    auth_failure,             \* self._auth_failure
    stop_requested,           \* stop() has been called on the thread
    processed,                \* InstagramWorkerThread._shared_processed_users
    send_method,              \* delivery method about to be called, 0..4
    send_attempt,             \* attempt of retry_on_login_required, 0..2
    send_retried,             \* a delivery call of this target was repeated
    dm_ok,                    \* target -> delivery calls that succeeded
    \* ---- what the injected callbacks and the platform have seen
    complete_log,             \* success flags of the on_complete calls, in order
    exit_reason,              \* which return path of run() was taken
    initial_sends,            \* message_sent events of initial sends, per worker
    accepted,                 \* target -> workers that passed the processed check
    delivered,                \* target -> initial messages delivered
    \* ---- verification codes: WorkerManager.pending_challenges and the waiters
    pending_challenges,       \* worker ids that have a slot in the registry
    slot_code,                \* slot["code"] of the worker's slot object
    slot_event,               \* slot["event"].is_set()
    chal_pc,                  \* position inside on_request_challenge_code
    elapsed,                  \* seconds spent in event.wait
    chal_code,                \* the local code read after the wait
    chal_result,              \* what the callback returned
    submit_log,               \* the last set_challenge_code call and its result
    \* ---- reply_monitor.py
    mon_todo,                 \* accounts the pass in progress has still to poll
    mon_last,                 \* what the last pass start decided
    \* ---- instagram_login.py, one account
    ua_file,                  \* <username>_user_agent.json, 0 when absent
    device_file,              \* <username>_device.json, 0 when absent
    session_file,             \* <username>.json exists
    helper,                   \* what the newest InstagramLoginHelper presents
    first_helper,             \* what the first one since the last rotation presented
    sessionid,                \* self.sessionid: none, shorter than 30, or full
    login_pc,                 \* position of login()
    attempt,                  \* attempt of the password loop
    stage_log,                \* the stages login() has finished, with their results
    last_outcome,             \* what the last password attempt met
    login_calls,              \* client.login() calls of this login()
    waits,                    \* the backoff sleeps of this login(), in order
    has_callback,             \* self.challenge_code_callback is set
    callback_calls,           \* calls of the callback in this login()
    \* ---- apply_spintax, applied once and then again to its own output
    spin_firstname,           \* firstname
    spin_input,               \* the text argument of the running application
    spin_text,                \* the local text
    spin_pc,                  \* none, start, loop, done
    spin_iters,               \* passes of the while loop in this application
    spin_round,               \* 1: on the template, 2: on the first output
    spin_template,            \* the template the first application was given
    \* ---- retry_on_login_required, one call
    retry_password,           \* self.password is set
    retry_pc,                 \* none, call, returned, raised
    retry_attempt,            \* attempt of the for loop
    retry_calls,              \* calls of func so far
    retry_reauths,            \* re-authentications so far
    retry_errors,             \* what each failed call raised and what followed
    \* ---- the two mutexes and the threads that take them
    shared_lock,              \* holder of InstagramWorkerThread._shared_lock
    registry_lock,            \* holder of WorkerManager.lock
    lk_pc,                    \* where each thread stands
    lk_op,                    \* the registry call of the request handler
    lk_running,               \* self.running of each worker thread
    lk_processed,             \* _shared_processed_users
    \* ---- the filters of run() on one target
    followers_threshold,      \* self.followers_threshold
    country_filter_enabled,   \* self.country_filter_enabled
    bio_filter_enabled,       \* self.bio_filter_enabled
    bio_keywords,             \* self.bio_keywords
    gender_filter,            \* self.gender_filter
    follower_count,           \* user_info.follower_count
    country,                  \* user_info.country or user_info.location
    bio_text,                 \* user_info.biography or ""
    detected_gender,          \* what the detector will answer
    flt_pc,                   \* none, followers, country, bio, gender,
                              \* compose, send, sent, failed, skipped
    flt_log,                  \* the filters evaluated, in order
    flt_failed,               \* the filter that skipped the target
    flt_composed,             \* apply_spintax was called
    flt_attempts,             \* delivery attempts
    \* ---- get_users_from_custom_list over one imported list
    lead_pc,                  \* none, rows, lookup, returned
    lead_row,                 \* rows of the list taken so far
    consecutive_errors,       \* consecutive_errors
    lead_delay,               \* the sleep before the last lookup
    lead_backoff,             \* the sleep after the last lookup
    lead_outcome,             \* how the last lookup ended
    \* ---- the session probe and the dm delay before each delivery
    last_request_time,        \* client._anti_detection._last_request_time
                              \* is not None
    dlv_pc,                   \* none, login, target, probe, wait, send,
                              \* stopped
    dlv_probed,               \* get_timeline_feed was called for this target
    dlv_slept,                \* wait_for_request slept for this target
    dlv_log,                  \* the initial deliveries attempted so far
    \* ---- the need_2fa event of on_request_challenge_code
    launcher,                 \* who built the callback: route, poller
    need_2fa,                 \* the event was emitted in this callback
    \* ---- on_message_sent and the stored counter of one campaign
    messages_sent,            \* campaigns[campaign_id]["messages_sent"]
    sent_events,              \* message_sent events emitted for the campaign
    cnt_pc,                   \* idle, emitted, locked, read, by worker
    cnt_read,                 \* campaign_data.get("messages_sent") as read
    counter_lock,             \* holder of _campaign_messages_sent_lock
    \* ---- the Reply Monitor on one conversation
    inbox,                    \* the authors of the messages of the thread,
                              \* in the order of their timestamps
    last_seen_at,             \* thread.last_seen_at of the account
    recorded,                 \* times each message was recorded and emitted
    passes,                   \* passes of the monitor so far
    \* ---- the targets a worker reaches, by kind of target source
    rc_source,                \* "list" (target_mode 3) or "enumerated", by worker
    rc_pc,                    \* next, resolved, target, by worker
    rc_idx,                   \* targets of the list the worker is done with
    rc_processed,             \* _shared_processed_users
    rc_handled,               \* times a target passed the check of a worker
    rc_outcome,               \* none, filtered, failed, sent, by target
    rc_late                   \* handle lookups of a target made while its id
                              \* was in the set already

storeVars == <<campaign_status>>
managerVars == <<worker_info, active_workers, thread_state, running, next_id>>
pollVars == <<poll_pc, running_campaigns, active_combos, todo,
              active_campaign_accounts, poll_worker, poll_account,
              poll_started, poll_clean, poll_n, poll_errors>>
regVars == <<storeVars, managerVars, pollVars, route_pc>>

sendVars == <<send_method, send_attempt, send_retried, dm_ok>>

runVars == <<run_pc, target_mode, message_count, follow_ups, fu_log, users, idx,
             successful_messages, auth_failure, processed, complete_log,
             exit_reason, initial_sends, accepted, delivered, sendVars,
             stop_requested>>

chalRest == <<slot_code, slot_event, chal_pc, elapsed, chal_code, chal_result,
              submit_log>>

chalVars == <<pending_challenges, chalRest>>

monVars == <<mon_todo, mon_last>>

coreVars == <<regVars, runVars, chalVars, monVars>>

loginVars == <<ua_file, device_file, session_file, helper, first_helper,
               sessionid, login_pc, attempt, stage_log, last_outcome,
               login_calls, waits, has_callback, callback_calls>>

spinVars == <<spin_firstname, spin_input, spin_text, spin_pc, spin_iters,
              spin_round, spin_template>>

retryVars == <<retry_password, retry_pc, retry_attempt, retry_calls,
               retry_reauths, retry_errors>>

lockVars == <<shared_lock, registry_lock, lk_pc, lk_op, lk_running,
              lk_processed>>

filterVars == <<followers_threshold, country_filter_enabled,
                bio_filter_enabled, bio_keywords, gender_filter,
                follower_count, country, bio_text, detected_gender, flt_pc,
                flt_log, flt_failed, flt_composed, flt_attempts>>

leadVars == <<lead_pc, lead_row, consecutive_errors, lead_delay,
              lead_backoff, lead_outcome>>

deliverVars == <<last_request_time, dlv_pc, dlv_probed, dlv_slept, dlv_log>>

notifyVars == <<launcher, need_2fa>>

counterVars == <<messages_sent, sent_events, cnt_pc, cnt_read, counter_lock>>

replyVars == <<inbox, last_seen_at, recorded, passes>>

reachVars == <<rc_source, rc_pc, rc_idx, rc_processed, rc_handled,
               rc_outcome, rc_late>>

tailVars == <<leadVars, deliverVars, notifyVars, counterVars, replyVars,
              reachVars>>

extraVars == <<retryVars, lockVars, filterVars, tailVars>>

auxVars == <<loginVars, spinVars, extraVars>>

vars == <<coreVars, auxVars>>

\* the registry side without the stop flag of the threads
regRest == <<storeVars, worker_info, active_workers, thread_state, next_id,
             pollVars, route_pc>>

Null == "null"

\* the registry has no entry under this worker id
NoInfo == [username |-> 0, campaign_id |-> NoCampaign, status |-> "none"]
Combos == Accounts \X Campaigns

\* ------------------------------------------------------- WorkerManager
\* add_worker: one lock-protected insert into both dicts
add_worker(w) == active_workers' = active_workers \cup {w}

\* remove_worker: one lock-protected delete from the dicts (remove_worker);
\* the variant deletes the pending slot only
remove_worker_slot_only(w) ==
    /\ UNCHANGED active_workers
    /\ pending_challenges' = pending_challenges \ {w}

remove_worker(w) ==
    /\ active_workers' = active_workers \ {w}
    /\ pending_challenges' = pending_challenges \ {w}

\* get_worker: active_workers.get(worker_id), NoInfo standing for None
get_worker(w) == IF w \in active_workers THEN worker_info[w] ELSE NoInfo

\* stop_worker: False when worker_threads has no handle for the id
stop_worker(w) == w \in active_workers

\* what set_challenge_code returns: whether the id has a pending slot
set_challenge_code_found(w) == w \in pending_challenges

\* get_all_workers filtered by the poller: combos with a starting/running entry
ActiveCombos ==
    {<<worker_info[w].username, worker_info[w].campaign_id>> :
        w \in {x \in active_workers : worker_info[x].status \in {"starting", "running"}}}

\* the worker_info dict both launchers build
NewWorkerInfo(a, c) ==
    [username |-> a, campaign_id |-> c, status |-> "starting"]

SetStatus(w, s) == worker_info' = [worker_info EXCEPT ![w].status = s]

\* ------------------------------------------------------- Campaign Poller
\* db.get_assignments(): username -> campaign id, one campaign per username
AssignmentMaps == [Accounts -> Campaigns \cup {NoCampaign}]

\* assigned_accounts of one campaign (AssignedAccounts); the variant takes
\* every account whatever its assignment
AssignedAccountsUnfiltered(asg, c) == Accounts
AssignedAccounts(asg, c) == {a \in Accounts : asg[a] = c}

RECURSIVE SetToSeq(_)
SetToSeq(S) ==
    IF S = {} THEN <<>>
    ELSE LET m == CHOOSE x \in S : \A y \in S : x <= y
         IN <<m>> \o SetToSeq(S \ {m})

RECURSIVE PairsOf(_, _)
\* the (campaign, username) pairs of the two nested for loops, in order
PairsOf(cs, asg) ==
    IF cs = <<>> THEN <<>>
    ELSE LET c == Head(cs)
             as == SetToSeq(AssignedAccounts(asg, c))
         IN [i \in 1..Len(as) |-> <<c, as[i]>>] \o PairsOf(Tail(cs), asg)

NoneStarted == [k \in Combos |-> 0]

\* poll: db.get_campaigns() and the running filter; nothing running clears
\* the tracking set and sleeps
PollFetchCampaigns ==
    /\ poll_pc = "sleep"
    /\ LET rc == {c \in Campaigns : campaign_status[c] = "running"} IN
        IF rc = {}
        THEN /\ active_campaign_accounts' = {}
             /\ UNCHANGED <<running_campaigns, poll_pc>>
        ELSE /\ running_campaigns' = rc
             /\ poll_pc' = "fetched"
             /\ UNCHANGED active_campaign_accounts
    /\ UNCHANGED <<active_combos, todo, poll_worker, poll_account, poll_started, poll_clean,
                   poll_n, poll_errors>>
    /\ UNCHANGED <<storeVars, managerVars, route_pc>>
    /\ UNCHANGED runVars
    /\ UNCHANGED chalVars
    /\ UNCHANGED monVars
    /\ UNCHANGED auxVars

\* poll: get_assignments, get_accounts, get_all_workers -> active_combos
PollSnapshotWorkers(asg) ==
    /\ poll_pc = "fetched"
    /\ active_combos' = ActiveCombos
    /\ poll_clean' = (active_workers = {})
    /\ poll_n' = Cardinality({a \in Accounts : asg[a] \in running_campaigns})
    /\ todo' = PairsOf(SetToSeq(running_campaigns), asg)
    /\ poll_pc' = "visit"
    /\ UNCHANGED <<running_campaigns, active_campaign_accounts, poll_worker, poll_account,
                   poll_started, poll_errors>>
    /\ UNCHANGED <<storeVars, managerVars, route_pc>>
    /\ UNCHANGED runVars
    /\ UNCHANGED chalVars
    /\ UNCHANGED monVars
    /\ UNCHANGED auxVars

\* the pair already has an active worker, or was recently launched
PollSkips(c, a) ==
    \/ <<a, c>> \in active_combos
    \/ <<a, c>> \in active_campaign_accounts

\* db.get_account(username): None, or the row with its password and
\* session_cookies fields (by truthiness)
NotFound == [found |-> FALSE, password |-> FALSE, session_cookies |-> FALSE]

AccountRecords ==
    {NotFound} \cup
    {[found |-> TRUE, password |-> p, session_cookies |-> s] : p, s \in BOOLEAN}

\* the visit goes on to _start_worker_sync: "if not account: continue" and
\* "if not password and not session_cookies: continue" both passed; the
\* variant leaves the second test out
HasCredentialsFound(acct) == acct.found

HasCredentials(acct) == acct.found /\ (acct.password \/ acct.session_cookies)

\* one iteration of the inner for loop that skips a represented pair
PollVisitSkip ==
    /\ poll_pc = "visit"
    /\ todo # <<>>
    /\ PollSkips(Head(todo)[1], Head(todo)[2])
    /\ todo' = Tail(todo)
    /\ UNCHANGED <<poll_pc, running_campaigns, active_combos,
                   active_campaign_accounts, poll_worker, poll_account, poll_started,
                   poll_clean, poll_n, poll_errors>>
    /\ UNCHANGED <<storeVars, managerVars, route_pc>>
    /\ UNCHANGED runVars
    /\ UNCHANGED chalVars
    /\ UNCHANGED monVars
    /\ UNCHANGED auxVars

\* db.get_account(username) finds no account, or one with neither password
\* nor session cookies: the pair is skipped
PollVisitNoCreds(acct) ==
    /\ poll_pc = "visit"
    /\ todo # <<>>
    /\ ~PollSkips(Head(todo)[1], Head(todo)[2])
    /\ ~HasCredentials(acct)
    /\ poll_account' = acct
    /\ todo' = Tail(todo)
    /\ UNCHANGED <<poll_pc, running_campaigns, active_combos,
                   active_campaign_accounts, poll_worker, poll_started,
                   poll_clean, poll_n, poll_errors>>
    /\ UNCHANGED <<storeVars, managerVars, route_pc>>
    /\ UNCHANGED runVars
    /\ UNCHANGED chalVars
    /\ UNCHANGED monVars
    /\ UNCHANGED auxVars

\* _start_worker_sync up to worker_thread.start()
PollVisitStart(acct) ==
    /\ poll_pc = "visit"
    /\ todo # <<>>
    /\ ~PollSkips(Head(todo)[1], Head(todo)[2])
    /\ HasCredentials(acct)
    /\ poll_account' = acct
    /\ next_id <= MaxWorkers
    /\ LET c == Head(todo)[1]
           a == Head(todo)[2]
           w == next_id
       IN /\ worker_info' = [worker_info EXCEPT ![w] = NewWorkerInfo(a, c)]
          /\ add_worker(w)
          /\ thread_state' = [thread_state EXCEPT ![w] = "started"]
          /\ next_id' = next_id + 1
          /\ poll_worker' = w
          /\ poll_started' = [poll_started EXCEPT ![<<a, c>>] = @ + 1]
    /\ poll_pc' = "poststart"
    /\ UNCHANGED <<running, running_campaigns, active_combos, todo,
                   active_campaign_accounts, poll_clean, poll_n, poll_errors>>
    /\ UNCHANGED <<storeVars, route_pc>>
    /\ UNCHANGED runVars
    /\ UNCHANGED chalVars
    /\ UNCHANGED monVars
    /\ UNCHANGED auxVars

\* the bootstrap raises, yet the pair is tracked as launched
PollVisitFailTracked(acct) ==
    /\ poll_pc = "visit"
    /\ todo # <<>>
    /\ ~PollSkips(Head(todo)[1], Head(todo)[2])
    /\ HasCredentials(acct)
    /\ poll_account' = acct
    /\ todo' = Tail(todo)
    /\ poll_errors' = poll_errors + 1
    /\ active_campaign_accounts' =
           active_campaign_accounts \cup {<<Head(todo)[2], Head(todo)[1]>>}
    /\ UNCHANGED <<poll_pc, running_campaigns, active_combos, poll_worker, poll_started,
                   poll_clean, poll_n>>
    /\ UNCHANGED <<storeVars, managerVars, route_pc>>
    /\ UNCHANGED runVars
    /\ UNCHANGED chalVars
    /\ UNCHANGED monVars
    /\ UNCHANGED auxVars

\* _start_worker_sync raises before the thread exists: error event, no tracking
PollVisitFail(acct) ==
    /\ poll_pc = "visit"
    /\ todo # <<>>
    /\ ~PollSkips(Head(todo)[1], Head(todo)[2])
    /\ HasCredentials(acct)
    /\ poll_account' = acct
    /\ todo' = Tail(todo)
    /\ poll_errors' = poll_errors + 1
    /\ UNCHANGED <<poll_pc, running_campaigns, active_combos,
                   active_campaign_accounts, poll_worker, poll_started,
                   poll_clean, poll_n>>
    /\ UNCHANGED <<storeVars, managerVars, route_pc>>
    /\ UNCHANGED runVars
    /\ UNCHANGED chalVars
    /\ UNCHANGED monVars
    /\ UNCHANGED auxVars

\* _start_worker_sync after start(): status = "running"; then the poller
\* adds the combo to its tracking set
PollPostStart ==
    /\ poll_pc = "poststart"
    /\ SetStatus(poll_worker, "running")
    /\ active_campaign_accounts' =
           active_campaign_accounts \cup {<<Head(todo)[2], Head(todo)[1]>>}
    /\ todo' = Tail(todo)
    /\ poll_worker' = NoWorker
    /\ poll_pc' = "visit"
    /\ UNCHANGED <<running_campaigns, active_combos, poll_account, poll_started, poll_clean,
                   poll_n, poll_errors>>
    /\ UNCHANGED <<storeVars, active_workers, thread_state, running, next_id,
                   route_pc>>
    /\ UNCHANGED runVars
    /\ UNCHANGED chalVars
    /\ UNCHANGED monVars
    /\ UNCHANGED auxVars

\* end of the cycle: prune tracking entries of campaigns no longer running;
\* the locals of the iteration die with it
PollPrune ==
    /\ poll_pc = "visit"
    /\ todo = <<>>
    /\ active_campaign_accounts' =
           {k \in active_campaign_accounts : k[2] \in running_campaigns}
    /\ poll_pc' = "sleep"
    /\ running_campaigns' = {}
    /\ active_combos' = {}
    /\ poll_started' = NoneStarted
    /\ poll_clean' = TRUE
    /\ poll_n' = 0
    /\ poll_errors' = 0
    /\ poll_account' = NotFound
    /\ UNCHANGED <<todo, poll_worker>>
    /\ UNCHANGED <<storeVars, managerVars, route_pc>>
    /\ UNCHANGED runVars
    /\ UNCHANGED chalVars
    /\ UNCHANGED monVars
    /\ UNCHANGED auxVars

\* ------------------------------------------------------- routes/workers.py
RouteIdle == route_pc = <<"idle">>

\* POST /start up to worker_thread.start(): no look-up of existing workers
StartWorker(a, c) ==
    /\ RouteIdle
    /\ next_id <= MaxWorkers
    /\ campaign_status' = [campaign_status EXCEPT ![c] = "running"]
    /\ LET w == next_id IN
        /\ worker_info' = [worker_info EXCEPT ![w] = NewWorkerInfo(a, c)]
        /\ add_worker(w)
        /\ thread_state' = [thread_state EXCEPT ![w] = "started"]
        /\ next_id' = next_id + 1
        /\ route_pc' = <<"poststart", w>>
    /\ UNCHANGED <<running, pollVars>>
    /\ UNCHANGED runVars
    /\ UNCHANGED chalVars
    /\ UNCHANGED monVars
    /\ UNCHANGED auxVars

\* POST /start after start(): worker_info["status"] = "running"
StartWorkerPostStart ==
    /\ route_pc[1] = "poststart"
    /\ SetStatus(route_pc[2], "running")
    /\ route_pc' = <<"idle">>
    /\ UNCHANGED <<storeVars, active_workers, thread_state, running, next_id,
                   pollVars>>
    /\ UNCHANGED runVars
    /\ UNCHANGED chalVars
    /\ UNCHANGED monVars
    /\ UNCHANGED auxVars

\* POST /{id}/stop: worker_manager.get_worker(id) found the entry
StopWorkerGet(w) ==
    /\ RouteIdle
    /\ w \in active_workers
    /\ route_pc' = <<"stop1", w>>
    /\ UNCHANGED <<storeVars, managerVars, pollVars>>
    /\ UNCHANGED runVars
    /\ UNCHANGED chalVars
    /\ UNCHANGED monVars
    /\ UNCHANGED auxVars

\* POST /{id}/stop: worker_manager.stop_worker(id) calls thread.stop(),
\* or answers 404 when the thread handle is gone
StopWorkerSignal ==
    /\ route_pc[1] = "stop1"
    /\ LET w == route_pc[2] IN
        IF w \in active_workers
        THEN /\ running' = [running EXCEPT ![w] = FALSE]
             /\ route_pc' = <<"stop2", w>>
        ELSE /\ UNCHANGED running
             /\ route_pc' = <<"idle">>
    /\ UNCHANGED <<storeVars, worker_info, active_workers, thread_state,
                   next_id, pollVars>>
    /\ UNCHANGED runVars
    /\ UNCHANGED chalVars
    /\ UNCHANGED monVars
    /\ UNCHANGED auxVars

\* POST /{id}/stop: worker["status"] = "stopped", campaign back to draft
StopWorkerFinish ==
    /\ route_pc[1] = "stop2"
    /\ LET w == route_pc[2] IN
        /\ SetStatus(w, "stopped")
        /\ campaign_status' =
               [campaign_status EXCEPT ![worker_info[w].campaign_id] = "draft"]
    /\ route_pc' = <<"idle">>
    /\ UNCHANGED <<active_workers, thread_state, running, next_id, pollVars>>
    /\ UNCHANGED runVars
    /\ UNCHANGED chalVars
    /\ UNCHANGED monVars
    /\ UNCHANGED auxVars

\* DELETE /{id}
DeleteWorker(w) ==
    /\ RouteIdle
    /\ w \in active_workers
    /\ remove_worker(w)
    /\ UNCHANGED <<storeVars, worker_info, thread_state, running, next_id,
                   pollVars, route_pc>>
    /\ UNCHANGED runVars
    /\ UNCHANGED chalRest
    /\ UNCHANGED monVars
    /\ UNCHANGED auxVars

\* PUT /campaigns/{id} with a status field
UpdateCampaign(c, s) ==
    /\ RouteIdle
    /\ campaign_status[c] # s
    /\ campaign_status' = [campaign_status EXCEPT ![c] = s]
    /\ UNCHANGED <<managerVars, pollVars, route_pc>>
    /\ UNCHANGED runVars
    /\ UNCHANGED chalVars
    /\ UNCHANGED monVars
    /\ UNCHANGED auxVars

\* ------------------------------------------------------- worker threads
\* run() begins: self.running = True
ThreadBegin(w) ==
    /\ thread_state[w] = "started"
    /\ thread_state' = [thread_state EXCEPT ![w] = "running"]
    /\ running' = [running EXCEPT ![w] = TRUE]
    /\ UNCHANGED <<storeVars, worker_info, active_workers, next_id, pollVars,
                   route_pc>>
    /\ UNCHANGED runVars
    /\ UNCHANGED chalVars
    /\ UNCHANGED monVars
    /\ UNCHANGED auxVars

\* the launcher's on_error closure
on_error(w) ==
    worker_info' = [worker_info EXCEPT ![w].status = "error"]

\* on_complete writing the campaign only when the worker failed
on_complete_failed_only(w, success) ==
    /\ worker_info' = [worker_info EXCEPT
           ![w].status = IF success THEN "completed" ELSE "error"]
    /\ campaign_status' = [campaign_status EXCEPT
           ![worker_info[w].campaign_id] = IF success THEN @ ELSE "failed"]
    /\ remove_worker(w)

\* the launcher's on_complete closure
on_complete(w, success) ==
    /\ worker_info' = [worker_info EXCEPT
           ![w].status = IF success THEN "completed" ELSE "error"]
    /\ campaign_status' = [campaign_status EXCEPT
           ![worker_info[w].campaign_id] = IF success THEN "draft" ELSE "failed"]
    /\ remove_worker(w)

\* the thread reports an error and keeps running
ThreadError(w) ==
    /\ thread_state[w] = "running"
    /\ on_error(w)
    /\ UNCHANGED <<storeVars, active_workers, thread_state, running, next_id,
                   pollVars, route_pc>>
    /\ UNCHANGED runVars
    /\ UNCHANGED chalVars
    /\ UNCHANGED monVars
    /\ UNCHANGED auxVars

\* the thread ends: its single on_complete call
ThreadComplete(w, success) ==
    /\ thread_state[w] = "running"
    /\ on_complete(w, success)
    /\ thread_state' = [thread_state EXCEPT ![w] = "finished"]
    /\ UNCHANGED <<running, next_id, pollVars, route_pc>>
    /\ UNCHANGED runVars
    /\ UNCHANGED chalRest
    /\ UNCHANGED monVars
    /\ UNCHANGED auxVars

\* ------------------------------------------------- instagram_worker.py
Modes == 0..4
LeadsMode == 3

\* how a delivery call can fail: LoginRequired, PleaseWaitFewMinutes, an
\* error that mentions 429 / too many, anything else
FailureKinds == {"login_required", "wait", "rate429", "other"}

\* the first k targets, in the order the platform returns them
FirstTargets(k) == [i \in 1..k |-> i]

\* the user the for loop is working on
CurrentUser(w) == users[w][idx[w] + 1]

\* _shared_processed_users after the add under _shared_lock (ProcessedAfter);
\* the variant leaves the add out
ProcessedAfterLost(u) == processed

ProcessedAfter(u) == processed \cup {u}

\* one call of the injected on_complete, then run() returns
Finish(w, reason, success) ==
    /\ complete_log' = [complete_log EXCEPT ![w] = Append(@, success)]
    /\ exit_reason' = [exit_reason EXCEPT ![w] = reason]
    /\ run_pc' = [run_pc EXCEPT ![w] = "done"]
    /\ fu_log' = [fu_log EXCEPT ![w] = <<>>]

\* the for loop moves on to the next user
NextUser(w) ==
    /\ idx' = [idx EXCEPT ![w] = @ + 1]
    /\ run_pc' = [run_pc EXCEPT ![w] = "loop"]
    /\ send_method' = [send_method EXCEPT ![w] = 0]
    /\ send_attempt' = [send_attempt EXCEPT ![w] = 0]

\* stop(): self.running = False
RunStop(w) ==
    /\ run_pc[w] \notin {"absent", "done"}
    /\ running' = [running EXCEPT ![w] = FALSE]
    /\ stop_requested' = [stop_requested EXCEPT ![w] = TRUE]
    /\ UNCHANGED <<storeVars, worker_info, active_workers, thread_state,
                   next_id, pollVars, route_pc>>
    /\ UNCHANGED <<run_pc, target_mode, message_count, follow_ups, fu_log, users, idx,
                   successful_messages, auth_failure, processed, complete_log,
                   exit_reason, initial_sends, accepted, delivered, sendVars>>
    /\ UNCHANGED chalVars
    /\ UNCHANGED monVars
    /\ UNCHANGED auxVars

\* run(): self.running = True
RunBegin(w) ==
    /\ run_pc[w] = "ready"
    /\ running' = [running EXCEPT ![w] = TRUE]
    /\ run_pc' = [run_pc EXCEPT ![w] = "login"]
    /\ UNCHANGED <<target_mode, message_count, follow_ups, fu_log, users, idx,
                   successful_messages, auth_failure, processed, complete_log,
                   exit_reason, initial_sends, accepted, delivered>>
    /\ UNCHANGED sendVars
    /\ UNCHANGED regRest
    /\ UNCHANGED stop_requested
    /\ UNCHANGED chalVars
    /\ UNCHANGED monVars
    /\ UNCHANGED auxVars

\* attempt_login_with_retry() succeeded
RunLoginOk(w) ==
    /\ run_pc[w] = "login"
    /\ run_pc' = [run_pc EXCEPT ![w] = "resolve"]
    /\ UNCHANGED <<running, target_mode, message_count, follow_ups, fu_log, users, idx,
                   successful_messages, auth_failure, processed, complete_log,
                   exit_reason, initial_sends, accepted, delivered>>
    /\ UNCHANGED sendVars
    /\ UNCHANGED regRest
    /\ UNCHANGED stop_requested
    /\ UNCHANGED chalVars
    /\ UNCHANGED monVars
    /\ UNCHANGED auxVars

\* attempt_login_with_retry() failed: on_error, on_complete(success=False)
RunLoginFail(w) ==
    /\ run_pc[w] = "login"
    /\ auth_failure' = [auth_failure EXCEPT ![w] = TRUE]
    /\ Finish(w, "login_failed", FALSE)
    /\ UNCHANGED <<running, target_mode, message_count, follow_ups, users, idx,
                   successful_messages, processed, initial_sends, accepted,
                   delivered>>
    /\ UNCHANGED sendVars
    /\ UNCHANGED regRest
    /\ UNCHANGED stop_requested
    /\ UNCHANGED chalVars
    /\ UNCHANGED monVars
    /\ UNCHANGED auxVars

\* target_mode outside 0..3: on_error, on_complete(success=False)
\* (RunInvalidMode); the variant returns without the on_complete call
RunInvalidModeSilent(w) ==
    /\ run_pc[w] = "resolve"
    /\ target_mode[w] \notin 0..3
    /\ exit_reason' = [exit_reason EXCEPT ![w] = "invalid_mode"]
    /\ run_pc' = [run_pc EXCEPT ![w] = "done"]
    /\ UNCHANGED <<running, target_mode, message_count, follow_ups, fu_log, users, idx,
                   successful_messages, auth_failure, processed, complete_log,
                   initial_sends, accepted, delivered>>
    /\ UNCHANGED sendVars
    /\ UNCHANGED regRest
    /\ UNCHANGED stop_requested
    /\ UNCHANGED chalVars
    /\ UNCHANGED monVars
    /\ UNCHANGED auxVars

RunInvalidMode(w) ==
    /\ run_pc[w] = "resolve"
    /\ target_mode[w] \notin 0..3
    /\ Finish(w, "invalid_mode", FALSE)
    /\ UNCHANGED <<running, target_mode, message_count, follow_ups, users, idx,
                   successful_messages, auth_failure, processed, initial_sends,
                   accepted, delivered>>
    /\ UNCHANGED sendVars
    /\ UNCHANGED regRest
    /\ UNCHANGED stop_requested
    /\ UNCHANGED chalVars
    /\ UNCHANGED monVars
    /\ UNCHANGED auxVars

\* leads mode without a leads file: on_complete(success=False)
RunNoLeads(w) ==
    /\ run_pc[w] = "resolve"
    /\ target_mode[w] = LeadsMode
    /\ Finish(w, "no_leads", FALSE)
    /\ UNCHANGED <<running, target_mode, message_count, follow_ups, users, idx,
                   successful_messages, auth_failure, processed, initial_sends,
                   accepted, delivered>>
    /\ UNCHANGED sendVars
    /\ UNCHANGED regRest
    /\ UNCHANGED stop_requested
    /\ UNCHANGED chalVars
    /\ UNCHANGED monVars
    /\ UNCHANGED auxVars

\* modes 0..2 resolved nobody: on_complete(success=not self._auth_failure);
\* af is whether the resolution gave up on the session
RunNoUsers(w, af) ==
    /\ run_pc[w] = "resolve"
    /\ target_mode[w] \in 0..2
    /\ auth_failure' = [auth_failure EXCEPT ![w] = af]
    /\ Finish(w, "no_users", ~af)
    /\ UNCHANGED <<running, target_mode, message_count, follow_ups, users, idx,
                   successful_messages, processed, initial_sends, accepted,
                   delivered>>
    /\ UNCHANGED sendVars
    /\ UNCHANGED regRest
    /\ UNCHANGED stop_requested
    /\ UNCHANGED chalVars
    /\ UNCHANGED monVars
    /\ UNCHANGED auxVars

\* what a resolution that returns users can have left in _auth_failure:
\* followers/following go on to the next seed after setting it, the hashtag
\* search returns [] and the leads generator never sets it
ResolveAuthFlags(mode) == IF mode \in {1, 2} THEN BOOLEAN ELSE {FALSE}

\* the target list was resolved (leads: the usernames the generator yields)
RunResolve(w, k, af) ==
    /\ run_pc[w] = "resolve"
    /\ target_mode[w] \in 0..3
    /\ k >= (IF target_mode[w] = LeadsMode THEN 0 ELSE 1)
    /\ af \in ResolveAuthFlags(target_mode[w])
    /\ users' = [users EXCEPT ![w] = FirstTargets(k)]
    /\ auth_failure' = [auth_failure EXCEPT ![w] = af]
    /\ run_pc' = [run_pc EXCEPT ![w] = "loop"]
    /\ UNCHANGED <<running, target_mode, message_count, follow_ups, fu_log, idx,
                   successful_messages, processed, complete_log, exit_reason,
                   initial_sends, accepted, delivered>>
    /\ UNCHANGED sendVars
    /\ UNCHANGED regRest
    /\ UNCHANGED stop_requested
    /\ UNCHANGED chalVars
    /\ UNCHANGED monVars
    /\ UNCHANGED auxVars

\* for loop: the stop flag was cleared: on_complete(), return
LoopCancelled(w) ==
    /\ run_pc[w] = "loop"
    /\ idx[w] < Len(users[w])
    /\ ~running[w]
    /\ Finish(w, "cancelled", TRUE)
    /\ UNCHANGED <<running, target_mode, message_count, follow_ups, users, idx,
                   successful_messages, auth_failure, processed, initial_sends,
                   accepted, delivered>>
    /\ UNCHANGED sendVars
    /\ UNCHANGED regRest
    /\ UNCHANGED stop_requested
    /\ UNCHANGED chalVars
    /\ UNCHANGED monVars
    /\ UNCHANGED auxVars

\* for loop: next user, check-and-add on the shared set under _shared_lock;
\* the outcomes of the previous iteration are gone
LoopTake(w) ==
    /\ run_pc[w] = "loop"
    /\ idx[w] < Len(users[w])
    /\ running[w]
    /\ fu_log' = [fu_log EXCEPT ![w] = <<>>]
    /\ LET u == CurrentUser(w) IN
        IF u \in processed
        THEN /\ idx' = [idx EXCEPT ![w] = @ + 1]
             /\ UNCHANGED <<run_pc, processed, accepted, send_retried>>
        ELSE /\ processed' = ProcessedAfter(u)
             /\ send_retried' = [send_retried EXCEPT ![w] = FALSE]
             /\ accepted' = [accepted EXCEPT ![u] = @ + 1]
             /\ run_pc' = [run_pc EXCEPT ![w] = "target"]
             /\ UNCHANGED idx
    /\ UNCHANGED <<running, target_mode, message_count, follow_ups, users,
                   successful_messages, auth_failure, complete_log,
                   exit_reason, initial_sends, delivered, send_method,
                   send_attempt, dm_ok>>
    /\ UNCHANGED regRest
    /\ UNCHANGED stop_requested
    /\ UNCHANGED chalVars
    /\ UNCHANGED monVars
    /\ UNCHANGED auxVars

\* an error on one user reaching the outer handler: on_complete(success=False)
TargetSkipAbort(w) ==
    /\ run_pc[w] = "target"
    /\ send_method[w] = 0
    /\ Finish(w, "critical", FALSE)
    /\ UNCHANGED <<running, target_mode, message_count, follow_ups, users, idx,
                   successful_messages, auth_failure, processed, initial_sends,
                   accepted, delivered>>
    /\ UNCHANGED sendVars
    /\ UNCHANGED regRest
    /\ UNCHANGED stop_requested
    /\ UNCHANGED chalVars
    /\ UNCHANGED monVars
    /\ UNCHANGED auxVars

\* no message goes out: the user is filtered out (continue), or LoginRequired
\* after retries, ClientError, PleaseWaitFewMinutes or another exception that
\* names no challenge ends the retry loop (break)
TargetSkip(w) ==
    /\ run_pc[w] = "target"
    /\ send_method[w] = 0
    /\ NextUser(w)
    /\ UNCHANGED <<running, target_mode, message_count, follow_ups, fu_log, users,
                   successful_messages, auth_failure, processed, complete_log,
                   exit_reason, initial_sends, accepted, delivered>>
    /\ UNCHANGED <<send_retried, dm_ok>>
    /\ UNCHANGED regRest
    /\ UNCHANGED stop_requested
    /\ UNCHANGED chalVars
    /\ UNCHANGED monVars
    /\ UNCHANGED auxVars

\* an exception that names a challenge: on_request_challenge_code blocks
TargetChallenge(w) ==
    /\ run_pc[w] = "target"
    /\ send_method[w] = 0
    /\ run_pc' = [run_pc EXCEPT ![w] = "challenge"]
    /\ UNCHANGED sendVars
    /\ UNCHANGED <<running, target_mode, message_count, follow_ups, fu_log, users, idx,
                   successful_messages, auth_failure, processed, complete_log,
                   exit_reason, initial_sends, accepted, delivered>>
    /\ UNCHANGED regRest
    /\ UNCHANGED stop_requested
    /\ UNCHANGED chalVars
    /\ UNCHANGED monVars
    /\ UNCHANGED auxVars

\* on_request_challenge_code returned: with a code and a successful login
\* the same user is retried, otherwise _auth_failure = True and break
ChallengeReturn(w, code, relogin) ==
    /\ run_pc[w] = "challenge"
    /\ IF code /\ relogin
       THEN /\ run_pc' = [run_pc EXCEPT ![w] = "target"]
            /\ UNCHANGED <<idx, auth_failure, send_method, send_attempt>>
       ELSE /\ auth_failure' = [auth_failure EXCEPT ![w] = TRUE]
            /\ NextUser(w)
    /\ UNCHANGED <<send_retried, dm_ok>>
    /\ UNCHANGED <<running, target_mode, message_count, follow_ups, fu_log, users,
                   successful_messages, processed, complete_log, exit_reason,
                   initial_sends, accepted, delivered>>
    /\ UNCHANGED regRest
    /\ UNCHANGED stop_requested
    /\ UNCHANGED chalVars
    /\ UNCHANGED monVars
    /\ UNCHANGED auxVars

\* the delivery call about to be made fails. retry_on_login_required repeats
\* direct_send and direct_send_text, up to max_retries times, after a
\* LoginRequired with a successful re-login, a PleaseWaitFewMinutes or a 429;
\* LoginRequired out of direct_send leaves the chain (break); any other
\* failure goes on to the next method, and after the last method the error
\* is raised: it either names a challenge or ends the work on this user.
\* ev is the number of message_sent events a repeated call emits.
SendFailure(w, kind, reauth, challenge, ev) ==
    /\ run_pc[w] = "target"
    /\ LET m == send_method[w]
           a == send_attempt[w]
           wrapped == m \in {1, 2}
           again == /\ wrapped
                    /\ a < MaxSendRetries
                    /\ \/ kind = "login_required" /\ reauth
                       \/ kind \in {"wait", "rate429"}
           login_out == m = 1 /\ kind = "login_required" /\ ~again
       IN  /\ reauth => kind = "login_required" /\ wrapped /\ a < MaxSendRetries
           /\ challenge => m = 4
           /\ IF again
              THEN /\ send_attempt' = [send_attempt EXCEPT ![w] = a + 1]
                   /\ send_retried' = [send_retried EXCEPT ![w] = TRUE]
                   /\ delivered' = [delivered EXCEPT ![CurrentUser(w)] = @ + ev]
                   /\ UNCHANGED <<run_pc, idx, send_method>>
              ELSE IF login_out \/ (m = 4 /\ ~challenge)
              THEN /\ NextUser(w)
                   /\ UNCHANGED <<send_retried, delivered>>
              ELSE IF m = 4
              THEN /\ run_pc' = [run_pc EXCEPT ![w] = "challenge"]
                   /\ send_method' = [send_method EXCEPT ![w] = 0]
                   /\ send_attempt' = [send_attempt EXCEPT ![w] = 0]
                   /\ UNCHANGED <<idx, send_retried, delivered>>
              ELSE /\ send_method' = [send_method EXCEPT ![w] = m + 1]
                   /\ send_attempt' = [send_attempt EXCEPT ![w] = 0]
                   /\ UNCHANGED <<run_pc, idx, send_retried, delivered>>
    /\ UNCHANGED <<running, target_mode, message_count, follow_ups, fu_log, users,
                   successful_messages, auth_failure, processed, complete_log,
                   exit_reason, initial_sends, accepted, dm_ok>>
    /\ UNCHANGED regRest
    /\ UNCHANGED stop_requested
    /\ UNCHANGED chalVars
    /\ UNCHANGED monVars
    /\ UNCHANGED auxVars

\* a failed delivery call emits no message_sent (SendFail); the variant
\* emits one each time the call is repeated
SendFailCounted(w, kind, reauth, challenge) ==
    SendFailure(w, kind, reauth, challenge, 1)

SendFail(w, kind, reauth, challenge) ==
    SendFailure(w, kind, reauth, challenge, 0)

\* if successful_messages >= self.message_count: the quota test of run()
QuotaReached(w) == successful_messages[w] >= message_count[w]

\* the outcomes of the follow-ups of one target, one per configured follow-up
FollowUpResults == UNION {[1..n -> BOOLEAN] : n \in 0..MaxFollowUpsTried}

\* successful_messages += 1 of each follow-up that went out
Successes(res) == Cardinality({i \in 1..Len(res) : res[i]})

\* the outcomes up to and including the first failure
UpToFailure(res) ==
    IF \A i \in 1..Len(res) : res[i] THEN res
    ELSE SubSeq(res, 1, CHOOSE i \in 1..Len(res) :
                            ~res[i] /\ \A j \in 1..(i - 1) : res[j])

\* the follow-up loop ends at the first follow-up that fails
TargetSendStopAtFailure(w, res) ==
    /\ run_pc[w] = "target"
    /\ Len(res) = follow_ups[w]
    /\ fu_log' = [fu_log EXCEPT ![w] = UpToFailure(res)]
    /\ dm_ok' = [dm_ok EXCEPT ![CurrentUser(w)] = @ + 1]
    /\ UNCHANGED send_retried
    /\ successful_messages' = [successful_messages EXCEPT ![w] = @ + 1 + Successes(UpToFailure(res))]
    /\ initial_sends' = [initial_sends EXCEPT ![w] = @ + 1]
    /\ delivered' = [delivered EXCEPT ![CurrentUser(w)] = @ + 1]
    /\ NextUser(w)
    /\ UNCHANGED <<running, target_mode, message_count, follow_ups, users,
                   auth_failure, processed, complete_log, exit_reason,
                   accepted>>
    /\ UNCHANGED regRest
    /\ UNCHANGED stop_requested
    /\ UNCHANGED chalVars
    /\ UNCHANGED monVars
    /\ UNCHANGED auxVars

\* the delivery call about to be made succeeds: one on_message_sent, then every
\* follow-up is tried, res[i] telling whether the i-th went out; the quota
\* test that follows ends the retry loop of this user only
TargetSend(w, res) ==
    /\ run_pc[w] = "target"
    /\ Len(res) = follow_ups[w]
    /\ fu_log' = [fu_log EXCEPT ![w] = res]
    /\ dm_ok' = [dm_ok EXCEPT ![CurrentUser(w)] = @ + 1]
    /\ UNCHANGED send_retried
    /\ successful_messages' = [successful_messages EXCEPT ![w] = @ + 1 + Successes(res)]
    /\ initial_sends' = [initial_sends EXCEPT ![w] = @ + 1]
    /\ delivered' = [delivered EXCEPT ![CurrentUser(w)] = @ + 1]
    /\ NextUser(w)
    /\ UNCHANGED <<running, target_mode, message_count, follow_ups, users,
                   auth_failure, processed, complete_log, exit_reason,
                   accepted>>
    /\ UNCHANGED regRest
    /\ UNCHANGED stop_requested
    /\ UNCHANGED chalVars
    /\ UNCHANGED monVars
    /\ UNCHANGED auxVars

\* the iteration is exhausted (the leads generator also ends when the stop
\* flag is cleared): on_progress(100), on_complete()
LoopFinish(w) ==
    /\ run_pc[w] = "loop"
    /\ \/ idx[w] = Len(users[w])
       \/ target_mode[w] = LeadsMode /\ ~running[w]
    /\ Finish(w, "finished", TRUE)
    /\ UNCHANGED <<running, target_mode, message_count, follow_ups, users, idx,
                   successful_messages, auth_failure, processed, initial_sends,
                   accepted, delivered>>
    /\ UNCHANGED sendVars
    /\ UNCHANGED regRest
    /\ UNCHANGED stop_requested
    /\ UNCHANGED chalVars
    /\ UNCHANGED monVars
    /\ UNCHANGED auxVars

\* an exception reaches the outer handler: on_error, on_complete(success=False)
CriticalError(w) ==
    /\ run_pc[w] \in {"login", "resolve", "loop"}
    /\ Finish(w, "critical", FALSE)
    /\ UNCHANGED <<running, target_mode, message_count, follow_ups, users, idx,
                   successful_messages, auth_failure, processed, initial_sends,
                   accepted, delivered>>
    /\ UNCHANGED sendVars
    /\ UNCHANGED regRest
    /\ UNCHANGED stop_requested
    /\ UNCHANGED chalVars
    /\ UNCHANGED monVars
    /\ UNCHANGED auxVars

\* ------------------------------------------------------ reply_monitor.py
\* registry entries whose status is "starting" or "running"
RunningWorkers ==
    {w \in active_workers : worker_info[w].status \in {"starting", "running"}}

\* a pass starts while some entry is starting or running: sleep, continue
MonitorSkip ==
    /\ mon_todo = {}
    /\ RunningWorkers # {}
    /\ mon_last' = "skipped"
    /\ UNCHANGED mon_todo
    /\ UNCHANGED <<regVars, runVars, chalVars>>
    /\ UNCHANGED auxVars

\* a pass starts otherwise: the accounts S that have credentials are polled
MonitorBegin(S) ==
    /\ mon_todo = {}
    /\ RunningWorkers = {}
    /\ mon_todo' = S
    /\ mon_last' = "polled"
    /\ UNCHANGED <<regVars, runVars, chalVars>>
    /\ UNCHANGED auxVars

\* _process_unread_replies_for_account: login and fetch of unread threads
MonitorAccount ==
    /\ mon_todo # {}
    /\ mon_todo' = mon_todo \ {CHOOSE a \in mon_todo : \A b \in mon_todo : a <= b}
    /\ UNCHANGED mon_last
    /\ UNCHANGED <<regVars, runVars, chalVars>>
    /\ UNCHANGED auxVars

\* ------------------------------------------- verification codes (2FA)
\* the codes an operator can type; the route refuses a blank one
Codes == {"111111", "222222"}

\* what on_request_challenge_code hands back when it has no code
Denied == "False"

\* return code or False
CodeOrFalse(code) == IF code = Null THEN Denied ELSE code

Min(a, b) == IF a <= b THEN a ELSE b

Waiting == {w \in WorkerIds : chal_pc[w] = "waiting"}

\* on_request_challenge_code: get_or_create_pending_challenge(worker_id)
ChalRequest(w) ==
    /\ thread_state[w] = "running"
    /\ chal_pc[w] = "none"
    /\ IF w \in pending_challenges
       THEN UNCHANGED <<pending_challenges, slot_code, slot_event>>
       ELSE /\ pending_challenges' = pending_challenges \cup {w}
            /\ slot_code' = [slot_code EXCEPT ![w] = Null]
            /\ slot_event' = [slot_event EXCEPT ![w] = FALSE]
    /\ chal_pc' = [chal_pc EXCEPT ![w] = "waiting"]
    /\ elapsed' = [elapsed EXCEPT ![w] = 0]
    /\ UNCHANGED <<chal_code, chal_result, submit_log>>
    /\ UNCHANGED <<regVars, runVars>>
    /\ UNCHANGED monVars
    /\ UNCHANGED auxVars

\* time passes for every thread blocked in event.wait(timeout=300); no wait
\* outlasts its timeout
Tick ==
    /\ Waiting # {}
    /\ \A w \in Waiting : elapsed[w] < ChallengeTimeout
    /\ elapsed' = [w \in WorkerIds |->
                      IF w \in Waiting
                      THEN Min(elapsed[w] + TickSeconds, ChallengeTimeout)
                      ELSE elapsed[w]]
    /\ UNCHANGED <<pending_challenges, slot_code, slot_event, chal_pc,
                   chal_code, chal_result, submit_log>>
    /\ UNCHANGED <<regVars, runVars>>
    /\ UNCHANGED monVars
    /\ UNCHANGED auxVars

\* event.wait returns: the event is set or the timeout has elapsed
\* (ChalWake); the variant returns at any moment
ChalWakeEarly(w) ==
    /\ chal_pc[w] = "waiting"
    /\ chal_pc' = [chal_pc EXCEPT ![w] = "woken"]
    /\ UNCHANGED <<pending_challenges, slot_code, slot_event, elapsed,
                   chal_code, chal_result, submit_log>>
    /\ UNCHANGED <<regVars, runVars>>
    /\ UNCHANGED monVars
    /\ UNCHANGED auxVars

ChalWake(w) ==
    /\ chal_pc[w] = "waiting"
    /\ slot_event[w] \/ elapsed[w] = ChallengeTimeout
    /\ chal_pc' = [chal_pc EXCEPT ![w] = "woken"]
    /\ UNCHANGED <<pending_challenges, slot_code, slot_event, elapsed,
                   chal_code, chal_result, submit_log>>
    /\ UNCHANGED <<regVars, runVars>>
    /\ UNCHANGED monVars
    /\ UNCHANGED auxVars

\* code = pending.get("code")
ChalRead(w) ==
    /\ chal_pc[w] = "woken"
    /\ chal_code' = [chal_code EXCEPT ![w] = slot_code[w]]
    /\ chal_pc' = [chal_pc EXCEPT ![w] = "read"]
    /\ UNCHANGED <<pending_challenges, slot_code, slot_event, elapsed,
                   chal_result, submit_log>>
    /\ UNCHANGED <<regVars, runVars>>
    /\ UNCHANGED monVars
    /\ UNCHANGED auxVars

\* clear_pending_challenge(worker_id); return code or False
ChalReturn(w) ==
    /\ chal_pc[w] = "read"
    /\ pending_challenges' = pending_challenges \ {w}
    /\ chal_result' = [chal_result EXCEPT ![w] = CodeOrFalse(chal_code[w])]
    /\ chal_pc' = [chal_pc EXCEPT ![w] = "returned"]
    /\ UNCHANGED <<slot_code, slot_event, elapsed, chal_code, submit_log>>
    /\ UNCHANGED <<regVars, runVars>>
    /\ UNCHANGED monVars
    /\ UNCHANGED auxVars

\* the worker goes on with the answer; the slot object is garbage
ChalResume(w) ==
    /\ chal_pc[w] = "returned"
    /\ chal_pc' = [chal_pc EXCEPT ![w] = "none"]
    /\ slot_code' = [slot_code EXCEPT ![w] = Null]
    /\ slot_event' = [slot_event EXCEPT ![w] = FALSE]
    /\ elapsed' = [elapsed EXCEPT ![w] = 0]
    /\ chal_code' = [chal_code EXCEPT ![w] = Null]
    /\ chal_result' = [chal_result EXCEPT ![w] = Null]
    /\ UNCHANGED <<pending_challenges, submit_log>>
    /\ UNCHANGED <<regVars, runVars>>
    /\ UNCHANGED monVars
    /\ UNCHANGED auxVars

\* WorkerManager.set_challenge_code under the lock, when the slot exists
\* (set_challenge_code); the variant stores the code and sets no event
set_challenge_code_unset(w, code) ==
    /\ slot_code' = [slot_code EXCEPT ![w] = code]
    /\ UNCHANGED slot_event

set_challenge_code(w, code) ==
    /\ slot_code' = [slot_code EXCEPT ![w] = code]
    /\ slot_event' = [slot_event EXCEPT ![w] = TRUE]

\* POST /{id}/challenge-code with a non-blank code: 404 when
\* set_challenge_code answers False
SubmitChallengeCode(w, code) ==
    /\ RouteIdle
    /\ IF w \in pending_challenges
       THEN /\ set_challenge_code(w, code)
            /\ submit_log' = <<w, code, TRUE>>
       ELSE /\ submit_log' = <<w, code, FALSE>>
            /\ UNCHANGED <<slot_code, slot_event>>
    /\ UNCHANGED <<pending_challenges, chal_pc, elapsed, chal_code, chal_result>>
    /\ UNCHANGED <<regVars, runVars>>
    /\ UNCHANGED monVars
    /\ UNCHANGED auxVars

\* --------------------------------- on_request_challenge_code, by launcher
Launchers == {"route", "poller"}

NotifyFrame ==
    /\ UNCHANGED <<regVars, runVars, monVars>>
    /\ UNCHANGED <<loginVars, spinVars, retryVars, lockVars, filterVars,
                   leadVars, deliverVars, launcher, counterVars, replyVars,
                   reachVars>>

\* WorkerManager.get_or_create_pending_challenge under the lock
get_or_create_pending_challenge(w) ==
    IF w \in pending_challenges
    THEN UNCHANGED <<pending_challenges, slot_code, slot_event>>
    ELSE /\ pending_challenges' = pending_challenges \cup {w}
         /\ slot_code' = [slot_code EXCEPT ![w] = Null]
         /\ slot_event' = [slot_event EXCEPT ![w] = FALSE]

\* routes/workers.py: the slot is created first
RouteSlot(w) ==
    /\ launcher[w] = "route"
    /\ thread_state[w] = "running"
    /\ chal_pc[w] = "none"
    /\ get_or_create_pending_challenge(w)
    /\ chal_pc' = [chal_pc EXCEPT ![w] = "created"]
    /\ need_2fa' = [need_2fa EXCEPT ![w] = FALSE]
    /\ elapsed' = [elapsed EXCEPT ![w] = 0]
    /\ UNCHANGED <<chal_code, chal_result, submit_log>>
    /\ NotifyFrame

\* routes/workers.py: then need_2fa is broadcast and the wait begins
RouteNotify(w) ==
    /\ chal_pc[w] = "created"
    /\ need_2fa' = [need_2fa EXCEPT ![w] = TRUE]
    /\ chal_pc' = [chal_pc EXCEPT ![w] = "waiting"]
    /\ UNCHANGED <<pending_challenges, slot_code, slot_event, elapsed,
                   chal_code, chal_result, submit_log>>
    /\ NotifyFrame

\* campaign_poller.py: need_2fa is broadcast first
PollerNotify(w) ==
    /\ launcher[w] = "poller"
    /\ thread_state[w] = "running"
    /\ chal_pc[w] = "none"
    /\ need_2fa' = [need_2fa EXCEPT ![w] = TRUE]
    /\ chal_pc' = [chal_pc EXCEPT ![w] = "emitted"]
    /\ elapsed' = [elapsed EXCEPT ![w] = 0]
    /\ UNCHANGED <<pending_challenges, slot_code, slot_event, chal_code,
                   chal_result, submit_log>>
    /\ NotifyFrame

\* campaign_poller.py: then the slot is created and the wait begins
PollerSlot(w) ==
    /\ chal_pc[w] = "emitted"
    /\ get_or_create_pending_challenge(w)
    /\ chal_pc' = [chal_pc EXCEPT ![w] = "waiting"]
    /\ UNCHANGED <<elapsed, chal_code, chal_result, submit_log, need_2fa>>
    /\ NotifyFrame

\* ------------------------------------------------------ instagram_login.py
Profiles == 1..NumProfiles
NoProfile == [user_agent |-> 0, device_ids |-> 0, device |-> 0, region |-> 0]
DefaultDevice == 0
SessionIds == {"none", "short", "full"}
LoginOutcomes == {"ok", "challenge", "login_required", "server_error",
                  "blacklist", "other"}

\* UserAgentManager.get_user_agent: the persisted value, else random.choice,
\* which is then persisted
get_user_agent(ua) == IF ua_file # 0 THEN ua_file ELSE ua

\* UserAgentManager.get_device_ids: the persisted ids, else fresh uuids,
\* which are then persisted
get_device_ids(ids) == IF device_file # 0 THEN device_file ELSE ids

\* apply_anti_detection -> AntiDetection.__init__: get_random_device() and
\* get_random_region() for every client; the fixed SM-G930F device otherwise
get_device(dev) == IF ANTI_DETECTION_ENABLED THEN dev ELSE DefaultDevice
get_region(reg) == IF ANTI_DETECTION_ENABLED THEN reg ELSE 0

\* def _handler(username, choice), installed as client.challenge_code_handler
HandlerArity == 2

\* self.client.challenge_code_handler(self.username, method, code)
SubmitArity == 3

\* _handle_challenge(method): False without a callback; else the handler is
\* called to request a code (it asks the callback), the callback is asked
\* again, and a code it yields is submitted through the handler
HandleChallenge(code) == has_callback /\ code /\ SubmitArity <= HandlerArity

\* if self._handle_challenge("email") or self._handle_challenge("sms")
Resolved(code) == HandleChallenge(code) \/ HandleChallenge(code)

\* calls of the callback made by that test: two for each method tried
ChallengeCalls(code) ==
    IF ~has_callback THEN 0
    ELSE IF HandleChallenge(code) THEN 2 ELSE 4

\* the rotation that leaves the device file in place
rotate_user_agent_only ==
    /\ ua_file' = 0
    /\ UNCHANGED device_file
    /\ first_helper' = NoProfile
    /\ session_file' = FALSE

\* UserAgentManager.rotate_fingerprint, followed in login() by os.remove of
\* the session file
rotate_fingerprint ==
    /\ ua_file' = 0
    /\ device_file' = 0
    /\ first_helper' = NoProfile
    /\ session_file' = FALSE

\* InstagramLoginHelper.__init__; a user agent or device ids are drawn only
\* when the file is missing
NewHelper(sid, ua, ids, dev, reg) ==
    /\ login_pc \in {"none", "true", "false", "raised"}
    /\ ua_file # 0 => ua = ua_file
    /\ device_file # 0 => ids = device_file
    /\ ua_file' = get_user_agent(ua)
    /\ device_file' = get_device_ids(ids)
    /\ helper' = [user_agent |-> ua_file', device_ids |-> device_file',
                  device |-> get_device(dev), region |-> get_region(reg)]
    /\ first_helper' = IF first_helper = NoProfile THEN helper'
                       ELSE first_helper
    /\ sessionid' = sid
    /\ login_pc' = "new"
    /\ attempt' = 0
    /\ stage_log' = <<>>
    /\ last_outcome' = "none"
    /\ login_calls' = 0
    /\ waits' = <<>>
    /\ has_callback' \in BOOLEAN
    /\ callback_calls' = 0
    /\ UNCHANGED session_file
    /\ UNCHANGED coreVars
    /\ UNCHANGED spinVars
    /\ UNCHANGED extraVars

StageDone(stage, ok) == Append(stage_log, [stage |-> stage, ok |-> ok])

\* login(): if self._load_session(): return True, but going on to the later
\* stages all the same
LoginLoadSessionOnward(valid) ==
    /\ login_pc = "new"
    /\ stage_log' = StageDone("saved", session_file /\ valid)
    /\ login_pc' = IF sessionid # "none" THEN "token" ELSE "password"
    /\ UNCHANGED <<ua_file, device_file, session_file, helper, first_helper,
                   sessionid, attempt, last_outcome, login_calls, waits,
                   has_callback, callback_calls>>
    /\ UNCHANGED coreVars
    /\ UNCHANGED spinVars
    /\ UNCHANGED extraVars

\* login(): if self._load_session(): return True; else on to
\* "if self.sessionid:" or to the password loop
LoginLoadSession(valid) ==
    /\ login_pc = "new"
    /\ stage_log' = StageDone("saved", session_file /\ valid)
    /\ login_pc' = IF session_file /\ valid THEN "true"
                   ELSE IF sessionid # "none" THEN "token" ELSE "password"
    /\ UNCHANGED <<ua_file, device_file, session_file, helper, first_helper,
                   sessionid, attempt, last_outcome, login_calls, waits,
                   has_callback, callback_calls>>
    /\ UNCHANGED coreVars
    /\ UNCHANGED spinVars
    /\ UNCHANGED extraVars

\* login(): if self._login_by_sessionid_multi(): _save_session, return True
\* (a token shorter than 30 characters fails at once)
LoginSessionId(valid) ==
    /\ login_pc = "token"
    /\ stage_log' = StageDone("token", sessionid = "full" /\ valid)
    /\ IF sessionid = "full" /\ valid
          THEN login_pc' = "true" /\ session_file' = TRUE
          ELSE login_pc' = "password" /\ UNCHANGED session_file
    /\ UNCHANGED <<ua_file, device_file, helper, first_helper, sessionid,
                   attempt, last_outcome, login_calls, waits, has_callback,
                   callback_calls>>
    /\ UNCHANGED coreVars
    /\ UNCHANGED spinVars
    /\ UNCHANGED extraVars

\* backoff = [30, 60, 120]
Backoff == <<30, 60, 120>>

\* the pass retrying after any error that is neither a challenge nor
\* login-required
LoginPasswordRetryAny(outcome, chal_ok, proxy_ok) ==
    /\ login_pc = "password"
    /\ last_outcome' = outcome
    /\ login_calls' = login_calls + 1
    /\ UNCHANGED <<helper, sessionid, has_callback>>
    /\ callback_calls' = IF outcome = "challenge"
                             THEN callback_calls + ChallengeCalls(chal_ok)
                             ELSE callback_calls
    /\ UNCHANGED coreVars
    /\ UNCHANGED spinVars
    /\ UNCHANGED extraVars
    /\ CASE outcome = "ok" \/ (outcome = "challenge" /\ Resolved(chal_ok)) ->
               /\ session_file' = TRUE
               /\ login_pc' = "true"
               /\ stage_log' = StageDone("password", TRUE)
               /\ UNCHANGED <<ua_file, device_file, first_helper, attempt,
                              waits>>
         [] outcome = "challenge" /\ ~Resolved(chal_ok) ->
               /\ rotate_fingerprint
               /\ login_pc' = "false"
               /\ stage_log' = StageDone("password", FALSE)
               /\ UNCHANGED <<attempt, waits>>
         [] outcome = "login_required" ->
               /\ login_pc' = "false"
               /\ stage_log' = StageDone("password", FALSE)
               /\ UNCHANGED <<ua_file, device_file, session_file,
                              first_helper, attempt, waits>>
         [] outcome \in {"server_error", "blacklist", "other"} /\ attempt < LoginMaxRetries - 1 ->
               /\ waits' = Append(waits, Backoff[Min(attempt, Len(Backoff) - 1) + 1])
               /\ attempt' = attempt + 1
               /\ UNCHANGED <<ua_file, device_file, session_file,
                              first_helper, login_pc, stage_log>>
         [] outcome = "blacklist" /\ proxy_ok ->
               /\ session_file' = TRUE
               /\ login_pc' = "true"
               /\ stage_log' = StageDone("password", TRUE)
               /\ UNCHANGED <<ua_file, device_file, first_helper, attempt,
                              waits>>
         [] OTHER ->
               /\ rotate_fingerprint
               /\ login_pc' = "raised"
               /\ stage_log' = StageDone("password", FALSE)
               /\ UNCHANGED <<attempt, waits>>

\* login(): one pass of "for attempt in range(max_retries)"
LoginPassword(outcome, chal_ok, proxy_ok) ==
    /\ login_pc = "password"
    /\ last_outcome' = outcome
    /\ login_calls' = login_calls + 1
    /\ UNCHANGED <<helper, sessionid, has_callback>>
    /\ callback_calls' = IF outcome = "challenge"
                             THEN callback_calls + ChallengeCalls(chal_ok)
                             ELSE callback_calls
    /\ UNCHANGED coreVars
    /\ UNCHANGED spinVars
    /\ UNCHANGED extraVars
    /\ CASE outcome = "ok" \/ (outcome = "challenge" /\ Resolved(chal_ok)) ->
               /\ session_file' = TRUE
               /\ login_pc' = "true"
               /\ stage_log' = StageDone("password", TRUE)
               /\ UNCHANGED <<ua_file, device_file, first_helper, attempt,
                              waits>>
         [] outcome = "challenge" /\ ~Resolved(chal_ok) ->
               /\ rotate_fingerprint
               /\ login_pc' = "false"
               /\ stage_log' = StageDone("password", FALSE)
               /\ UNCHANGED <<attempt, waits>>
         [] outcome = "login_required" ->
               /\ login_pc' = "false"
               /\ stage_log' = StageDone("password", FALSE)
               /\ UNCHANGED <<ua_file, device_file, session_file,
                              first_helper, attempt, waits>>
         [] outcome = "server_error" /\ attempt < LoginMaxRetries - 1 ->
               /\ waits' = Append(waits, Backoff[Min(attempt, Len(Backoff) - 1) + 1])
               /\ attempt' = attempt + 1
               /\ UNCHANGED <<ua_file, device_file, session_file,
                              first_helper, login_pc, stage_log>>
         [] outcome = "blacklist" /\ proxy_ok ->
               /\ session_file' = TRUE
               /\ login_pc' = "true"
               /\ stage_log' = StageDone("password", TRUE)
               /\ UNCHANGED <<ua_file, device_file, first_helper, attempt,
                              waits>>
         [] OTHER ->
               /\ rotate_fingerprint
               /\ login_pc' = "raised"
               /\ stage_log' = StageDone("password", FALSE)
               /\ UNCHANGED <<attempt, waits>>

\* ------------------------------------------- apply_spintax (strings)
\* a text is a sequence of symbols; "{" followed by "}" stands for the
\* token {firstname}, "a" for any other character that is not white space
Symbols == {"[", "]", "|", "{", "}", " ", "a"}
Token == <<"{", "}">>
FirstNames == {<<>>, <<"a">>, <<"[", "|", "]">>}

RECURSIVE TextsUpTo(_)
TextsUpTo(n) ==
    IF n = 0 THEN {<<>>}
    ELSE LET shorter == TextsUpTo(n - 1)
         IN shorter \cup {Append(t, c) : t \in shorter, c \in Symbols}

\* text[i..j]
Slice(text, i, j) == SubSeq(text, i, j)

\* str.replace("{firstname}", firstname): left to right, not overlapping
RECURSIVE Replace(_, _)
Replace(text, firstname) ==
    IF Len(text) = 0 THEN <<>>
    ELSE IF Len(text) >= 2 /\ Slice(text, 1, 2) = Token
         THEN firstname \o Replace(Slice(text, 3, Len(text)), firstname)
         ELSE <<Head(text)>> \o Replace(Tail(text), firstname)

\* "if firstname: text = text.replace(...)"
Substitute(text, firstname) ==
    IF firstname # <<>> THEN Replace(text, firstname) ELSE text

\* the spans <<i, j>> the pattern \[([^\[\]]*?\|[^\[\]]*?)\] can match
Matches(text) ==
    {m \in (1..Len(text)) \X (1..Len(text)) :
        /\ m[1] < m[2]
        /\ text[m[1]] = "[" /\ text[m[2]] = "]"
        /\ \A k \in (m[1] + 1)..(m[2] - 1) : text[k] \notin {"[", "]"}
        /\ \E k \in (m[1] + 1)..(m[2] - 1) : text[k] = "|"}

\* pattern.search(text): the leftmost match
Search(text) ==
    CHOOSE m \in Matches(text) : \A o \in Matches(text) : m[1] <= o[1]

\* str.split("|")
RECURSIVE Split(_)
Split(text) ==
    IF \A k \in 1..Len(text) : text[k] # "|" THEN <<text>>
    ELSE LET p == CHOOSE k \in 1..Len(text) :
                      text[k] = "|" /\ \A h \in 1..(k - 1) : text[h] # "|"
         IN <<Slice(text, 1, p - 1)>> \o Split(Slice(text, p + 1, Len(text)))

\* str.strip()
RECURSIVE Strip(_)
Strip(text) ==
    IF Len(text) = 0 THEN text
    ELSE IF Head(text) = " " THEN Strip(Tail(text))
    ELSE IF text[Len(text)] = " " THEN Strip(Slice(text, 1, Len(text) - 1))
    ELSE text

\* apply_spintax is called
SpinBegin ==
    /\ spin_pc = "start"
    /\ spin_text' = Substitute(spin_input, spin_firstname)
    /\ spin_iters' = 0
    /\ spin_pc' = "loop"
    /\ UNCHANGED <<spin_firstname, spin_input, spin_round, spin_template>>
    /\ UNCHANGED coreVars
    /\ UNCHANGED loginVars
    /\ UNCHANGED extraVars

\* one pass of the while loop: search, split, random.choice, strip, splice
SpinStep(k) ==
    /\ spin_pc = "loop"
    /\ Matches(spin_text) # {}
    /\ LET m == Search(spin_text)
           options == Split(Slice(spin_text, m[1] + 1, m[2] - 1))
       IN /\ k \in 1..Len(options)
          /\ spin_text' = Slice(spin_text, 1, m[1] - 1) \o Strip(options[k])
                             \o Slice(spin_text, m[2] + 1, Len(spin_text))
    /\ spin_iters' = spin_iters + 1
    /\ UNCHANGED <<spin_firstname, spin_input, spin_pc, spin_round,
                   spin_template>>
    /\ UNCHANGED coreVars
    /\ UNCHANGED loginVars
    /\ UNCHANGED extraVars

\* the loop left after a pass whether or not a match remains
SpinReturnEarly ==
    /\ spin_pc = "loop"
    /\ spin_iters >= 1 \/ Matches(spin_text) = {}
    /\ spin_pc' = "done"
    /\ UNCHANGED <<spin_firstname, spin_input, spin_text, spin_iters,
                   spin_round, spin_template>>
    /\ UNCHANGED coreVars
    /\ UNCHANGED loginVars
    /\ UNCHANGED extraVars

\* "if not match: break", then return text
SpinReturn ==
    /\ spin_pc = "loop"
    /\ Matches(spin_text) = {}
    /\ spin_pc' = "done"
    /\ UNCHANGED <<spin_firstname, spin_input, spin_text, spin_iters,
                   spin_round, spin_template>>
    /\ UNCHANGED coreVars
    /\ UNCHANGED loginVars
    /\ UNCHANGED extraVars

\* apply_spintax is called on what it returned, with the same first name
SpinAgain ==
    /\ spin_pc = "done"
    /\ spin_round = 1
    /\ spin_round' = 2
    /\ spin_input' = spin_text
    /\ spin_pc' = "start"
    /\ UNCHANGED <<spin_firstname, spin_text, spin_iters, spin_template>>
    /\ UNCHANGED coreVars
    /\ UNCHANGED loginVars
    /\ UNCHANGED extraVars

\* ------------------------------------------- retry_on_login_required
\* what follows a failed call: the loop goes on after client.relogin()
\* ("relogin"), after attempt_login_with_retry() ("login") or after a sleep
\* ("sleep"); otherwise the error is raised
RetryFollowUps == {"relogin", "login", "sleep", "raise"}

\* the pass that goes on after any error while attempts are left
RetryPassAnyError(outcome, relogin_ok, login_ok) ==
    /\ retry_pc = "call"
    /\ retry_calls' = retry_calls + 1
    /\ LET left == retry_attempt < MaxSendRetries
           relogin == retry_password /\ relogin_ok
           then == CASE outcome = "login_required" /\ left /\ relogin -> "relogin"
                     [] outcome = "login_required" /\ left /\ login_ok -> "login"
                     [] outcome \in {"wait", "rate429", "other"} /\ left -> "sleep"
                     [] OTHER -> "raise"
       IN IF outcome = "ok"
          THEN /\ retry_pc' = "returned"
               /\ UNCHANGED <<retry_attempt, retry_reauths, retry_errors>>
          ELSE /\ retry_errors' = Append(retry_errors,
                                         [kind |-> outcome, then |-> then])
               /\ retry_reauths' = IF outcome = "login_required" /\ left
                                      THEN retry_reauths + 1 ELSE retry_reauths
               /\ IF then = "raise"
                     THEN retry_pc' = "raised" /\ UNCHANGED retry_attempt
                     ELSE retry_pc' = "call" /\ retry_attempt' = retry_attempt + 1
    /\ UNCHANGED retry_password
    /\ UNCHANGED <<coreVars, loginVars, spinVars>>
    /\ UNCHANGED <<lockVars, filterVars, tailVars>>

\* one pass of "for attempt in range(max_retries + 1)": func is called; on
\* LoginRequired with attempts left the worker re-authenticates (relogin(),
\* else a full login) and goes on if that worked; on PleaseWaitFewMinutes or
\* a 429 / too many error it sleeps and goes on if attempts are left; any
\* other error is raised
RetryPass(outcome, relogin_ok, login_ok) ==
    /\ retry_pc = "call"
    /\ retry_calls' = retry_calls + 1
    /\ LET left == retry_attempt < MaxSendRetries
           relogin == retry_password /\ relogin_ok
           then == CASE outcome = "login_required" /\ left /\ relogin -> "relogin"
                     [] outcome = "login_required" /\ left /\ login_ok -> "login"
                     [] outcome \in {"wait", "rate429"} /\ left -> "sleep"
                     [] OTHER -> "raise"
       IN IF outcome = "ok"
          THEN /\ retry_pc' = "returned"
               /\ UNCHANGED <<retry_attempt, retry_reauths, retry_errors>>
          ELSE /\ retry_errors' = Append(retry_errors,
                                         [kind |-> outcome, then |-> then])
               /\ retry_reauths' = IF outcome = "login_required" /\ left
                                      THEN retry_reauths + 1 ELSE retry_reauths
               /\ IF then = "raise"
                     THEN retry_pc' = "raised" /\ UNCHANGED retry_attempt
                     ELSE retry_pc' = "call" /\ retry_attempt' = retry_attempt + 1
    /\ UNCHANGED retry_password
    /\ UNCHANGED <<coreVars, loginVars, spinVars>>
    /\ UNCHANGED <<lockVars, filterVars, tailVars>>

\* ------------------------------- the mutexes: _shared_lock, manager.lock
\* the request handler thread, beside the worker threads
Handler == 0

LockThreads == {Handler} \cup WorkerIds

\* no thread holds the mutex
Unlocked == -1

\* the registry calls a request handler makes
RegistryOps == {"add_worker", "stop_worker", "set_challenge_code",
                "get_all_workers"}

NoOp == <<"none", NoWorker>>

\* a thread here is inside a platform request, a verification wait or a sleep
BlockingPcs == {"request", "wait", "sleep"}

\* a thread here is waiting for WorkerManager.lock
RegistryEntry == {"lock_get", "lock_clear", "lock_remove"}

\* a thread here is inside "with self.lock"
RegistryInside == {"in_get", "in_clear", "in_remove"}

LockFrame ==
    UNCHANGED <<coreVars, loginVars, spinVars, retryVars, filterVars, tailVars>>

\* a handler enters "with self.lock" of one registry call
HandlerAcquire(op, w) ==
    /\ lk_pc[Handler] = "idle"
    /\ registry_lock = Unlocked
    /\ op = "add_worker" => lk_pc[w] = "unborn"
    /\ registry_lock' = Handler
    /\ lk_op' = <<op, w>>
    /\ lk_pc' = [lk_pc EXCEPT ![Handler] = "in_registry"]
    /\ UNCHANGED <<shared_lock, lk_running, lk_processed>>
    /\ LockFrame

\* the body of the call and the end of the with block; stop_worker calls
\* thread.stop(), which clears the flag of a registered thread
HandlerCritical ==
    /\ lk_pc[Handler] = "in_registry"
    /\ registry_lock' = Unlocked
    /\ lk_running' =
           IF lk_op[1] = "stop_worker"
                  /\ lk_pc[lk_op[2]] \notin {"unborn", "done"}
           THEN [lk_running EXCEPT ![lk_op[2]] = FALSE]
           ELSE lk_running
    /\ lk_pc' = [lk_pc EXCEPT ![Handler] =
                     IF lk_op[1] = "add_worker" THEN "start" ELSE "idle"]
    /\ lk_op' = IF lk_op[1] = "add_worker" THEN lk_op ELSE NoOp
    /\ UNCHANGED <<shared_lock, lk_processed>>
    /\ LockFrame

\* worker_thread.start() after add_worker; run(): self.running = True
HandlerStart ==
    /\ lk_pc[Handler] = "start"
    /\ lk_pc' = [lk_pc EXCEPT ![Handler] = "idle", ![lk_op[2]] = "loop"]
    /\ lk_running' = [lk_running EXCEPT ![lk_op[2]] = TRUE]
    /\ lk_op' = NoOp
    /\ UNCHANGED <<shared_lock, registry_lock, lk_processed>>
    /\ LockFrame

\* for loop of run(): the next user, towards "with _shared_lock"
WorkerNext(w) ==
    /\ lk_pc[w] = "loop"
    /\ lk_running[w]
    /\ lk_pc' = [lk_pc EXCEPT ![w] = "lock_shared"]
    /\ UNCHANGED <<shared_lock, registry_lock, lk_op, lk_running, lk_processed>>
    /\ LockFrame

\* the loop ends or is cancelled: on_complete, towards remove_worker
WorkerExit(w) ==
    /\ lk_pc[w] = "loop"
    /\ lk_pc' = [lk_pc EXCEPT ![w] = "lock_remove"]
    /\ UNCHANGED <<shared_lock, registry_lock, lk_op, lk_running, lk_processed>>
    /\ LockFrame

\* with InstagramWorkerThread._shared_lock:
SharedAcquire(w) ==
    /\ lk_pc[w] = "lock_shared"
    /\ shared_lock = Unlocked
    /\ shared_lock' = w
    /\ lk_pc' = [lk_pc EXCEPT ![w] = "in_shared"]
    /\ UNCHANGED <<registry_lock, lk_op, lk_running, lk_processed>>
    /\ LockFrame

\* the check-and-add on _shared_processed_users and the end of the block
SharedCritical(w, u) ==
    /\ lk_pc[w] = "in_shared"
    /\ shared_lock' = Unlocked
    /\ IF u \in lk_processed
       THEN /\ lk_pc' = [lk_pc EXCEPT ![w] = "loop"]
            /\ UNCHANGED lk_processed
       ELSE /\ lk_processed' = lk_processed \cup {u}
            /\ lk_pc' = [lk_pc EXCEPT ![w] = "request"]
    /\ UNCHANGED <<registry_lock, lk_op, lk_running>>
    /\ LockFrame

\* user_info / direct_send: it goes through, asks for verification, or fails
PlatformRequest(w, outcome) ==
    /\ lk_pc[w] = "request"
    /\ lk_pc' = [lk_pc EXCEPT ![w] =
                     CASE outcome = "ok" -> "sleep"
                       [] outcome = "challenge" -> "lock_get"
                       [] OTHER -> "loop"]
    /\ UNCHANGED <<shared_lock, registry_lock, lk_op, lk_running, lk_processed>>
    /\ LockFrame

\* a worker enters "with self.lock": get_or_create_pending_challenge,
\* clear_pending_challenge, remove_worker
RegistryAcquire(w) ==
    /\ lk_pc[w] \in RegistryEntry
    /\ registry_lock = Unlocked
    /\ registry_lock' = w
    /\ lk_pc' = [lk_pc EXCEPT ![w] =
                     CASE lk_pc[w] = "lock_get" -> "in_get"
                       [] lk_pc[w] = "lock_clear" -> "in_clear"
                       [] OTHER -> "in_remove"]
    /\ UNCHANGED <<shared_lock, lk_op, lk_running, lk_processed>>
    /\ LockFrame

\* where the worker goes after the registry call
AfterRegistry(w, retry) ==
    CASE lk_pc[w] = "in_get" -> "wait"
      [] lk_pc[w] = "in_clear" -> IF retry THEN "request" ELSE "loop"
      [] OTHER -> "done"

\* the slot is looked up and the event waited on inside the with block
RegistryCriticalHolding(w, retry) ==
    /\ lk_pc[w] \in RegistryInside
    /\ registry_lock' = IF lk_pc[w] = "in_get" THEN w ELSE Unlocked
    /\ lk_pc' = [lk_pc EXCEPT ![w] = AfterRegistry(w, retry)]
    /\ UNCHANGED <<shared_lock, lk_op, lk_running, lk_processed>>
    /\ LockFrame

\* the dictionary update of the call and the end of the with block
RegistryCritical(w, retry) ==
    /\ lk_pc[w] \in RegistryInside
    /\ registry_lock' = Unlocked
    /\ lk_pc' = [lk_pc EXCEPT ![w] = AfterRegistry(w, retry)]
    /\ UNCHANGED <<shared_lock, lk_op, lk_running, lk_processed>>
    /\ LockFrame

\* pending["event"].wait(timeout=300) returns
VerificationWait(w) ==
    /\ lk_pc[w] = "wait"
    /\ lk_pc' = [lk_pc EXCEPT ![w] = "lock_clear"]
    /\ UNCHANGED <<shared_lock, registry_lock, lk_op, lk_running, lk_processed>>
    /\ LockFrame

\* simulate_human_behavior / add_random_human_delays return
WorkerSleep(w) ==
    /\ lk_pc[w] = "sleep"
    /\ lk_pc' = [lk_pc EXCEPT ![w] = "loop"]
    /\ UNCHANGED <<shared_lock, registry_lock, lk_op, lk_running, lk_processed>>
    /\ LockFrame

\* --------------------------------------------- the filters of run()
\* a bio or a keyword is a sequence of symbols: "a" and "A" are one letter
\* in its two cases, " " is white space
BioSymbols == {"a", "A", " "}

RECURSIVE BiosUpTo(_)
BiosUpTo(n) ==
    IF n = 0 THEN {<<>>}
    ELSE LET shorter == BiosUpTo(n - 1)
         IN shorter \cup {Append(t, c) : t \in shorter, c \in BioSymbols}

\* the keywords a launcher passes: split on commas, stripped, none empty
KeywordChoices == {<<"a">>, <<"A", "a">>}

RECURSIVE KeywordLists(_)
KeywordLists(n) ==
    IF n = 0 THEN {<<>>}
    ELSE LET shorter == KeywordLists(n - 1)
         IN shorter \cup {Append(l, k) : l \in shorter, k \in KeywordChoices}

\* str.lower()
Lower(text) == [i \in 1..Len(text) |-> IF text[i] = "A" THEN "a" ELSE text[i]]

\* "sub in text"
Within(sub, text) ==
    \E i \in 0..(Len(text) - Len(sub)) : SubSeq(text, i + 1, i + Len(sub)) = sub

\* the test also accepts a bio that is part of a keyword
bio_contains_keywords_either_way(bio, keywords) ==
    IF bio = <<>> \/ keywords = <<>> THEN TRUE
    ELSE LET bio_lower == Strip(Lower(bio))
         IN \E i \in 1..Len(keywords) :
                LET keyword_clean == Lower(Strip(keywords[i]))
                IN /\ keyword_clean # <<>>
                   /\ \/ Within(keyword_clean, bio_lower)
                      \/ Within(bio_lower, keyword_clean)

\* bio_contains_keywords(bio_text, keywords)
bio_contains_keywords(bio, keywords) ==
    IF bio = <<>> \/ keywords = <<>> THEN TRUE
    ELSE LET bio_lower == Strip(Lower(bio))
         IN \E i \in 1..Len(keywords) :
                LET keyword_clean == Lower(Strip(keywords[i]))
                IN keyword_clean # <<>> /\ Within(keyword_clean, bio_lower)

\* the countries of the sample and is_first_world_country on them
Countries == {"", "Canada", "Peru"}

is_first_world_country(c) == c = "Canada"

FilterFrame ==
    UNCHANGED <<coreVars, loginVars, spinVars, retryVars, lockVars, tailVars>>

FilterInputs ==
    UNCHANGED <<followers_threshold, country_filter_enabled,
                bio_filter_enabled, bio_keywords, gender_filter,
                follower_count, country, bio_text, detected_gender>>

\* "continue": the target is skipped
FilterSkip(name) ==
    /\ flt_failed' = name
    /\ flt_pc' = "skipped"

\* the threshold is tested and the pipeline goes on after a failure
FilterFollowersOnward ==
    /\ flt_pc = "followers"
    /\ flt_log' = Append(flt_log, "followers")
    /\ flt_failed' = IF follower_count < followers_threshold
                        THEN "followers" ELSE flt_failed
    /\ flt_pc' = "country"
    /\ UNCHANGED <<flt_composed, flt_attempts>>
    /\ FilterInputs
    /\ FilterFrame

\* if follower_count < self.followers_threshold: continue
FilterFollowers ==
    /\ flt_pc = "followers"
    /\ flt_log' = Append(flt_log, "followers")
    /\ IF follower_count < followers_threshold
       THEN FilterSkip("followers")
       ELSE flt_pc' = "country" /\ UNCHANGED flt_failed
    /\ UNCHANGED <<flt_composed, flt_attempts>>
    /\ FilterInputs
    /\ FilterFrame

\* if self.country_filter_enabled: a known country outside the list: continue
FilterCountry ==
    /\ flt_pc = "country"
    /\ IF country_filter_enabled
       THEN /\ flt_log' = Append(flt_log, "country")
            /\ IF country # "" /\ ~is_first_world_country(country)
               THEN FilterSkip("country")
               ELSE flt_pc' = "bio" /\ UNCHANGED flt_failed
       ELSE /\ flt_pc' = "bio"
            /\ UNCHANGED <<flt_log, flt_failed>>
    /\ UNCHANGED <<flt_composed, flt_attempts>>
    /\ FilterInputs
    /\ FilterFrame

\* if self.bio_filter_enabled and self.bio_keywords: no keyword: continue
FilterBio ==
    /\ flt_pc = "bio"
    /\ IF bio_filter_enabled /\ bio_keywords # <<>>
       THEN /\ flt_log' = Append(flt_log, "bio")
            /\ IF ~bio_contains_keywords(bio_text, bio_keywords)
               THEN FilterSkip("bio")
               ELSE flt_pc' = "gender" /\ UNCHANGED flt_failed
       ELSE /\ flt_pc' = "gender"
            /\ UNCHANGED <<flt_log, flt_failed>>
    /\ UNCHANGED <<flt_composed, flt_attempts>>
    /\ FilterInputs
    /\ FilterFrame

\* if self.gender_filter and self.gender_filter != "all": the detector is
\* asked; a known gender other than the wanted one: continue
FilterGender ==
    /\ flt_pc = "gender"
    /\ IF gender_filter # "" /\ gender_filter # "all"
       THEN /\ flt_log' = Append(flt_log, "gender")
            /\ IF detected_gender # "unknown" /\ detected_gender # gender_filter
               THEN FilterSkip("gender")
               ELSE flt_pc' = "compose" /\ UNCHANGED flt_failed
       ELSE /\ flt_pc' = "compose"
            /\ UNCHANGED <<flt_log, flt_failed>>
    /\ UNCHANGED <<flt_composed, flt_attempts>>
    /\ FilterInputs
    /\ FilterFrame

\* message = apply_spintax(template, firstname)
FilterCompose ==
    /\ flt_pc = "compose"
    /\ flt_composed' = TRUE
    /\ flt_pc' = "send"
    /\ UNCHANGED <<flt_log, flt_failed, flt_attempts>>
    /\ FilterInputs
    /\ FilterFrame

\* the delivery of the message: it goes out or the error ends the iteration
FilterDeliver(ok) ==
    /\ flt_pc = "send"
    /\ flt_attempts' = flt_attempts + 1
    /\ flt_pc' = IF ok THEN "sent" ELSE "failed"
    /\ UNCHANGED <<flt_log, flt_failed, flt_composed>>
    /\ FilterInputs
    /\ FilterFrame

\* ------------------------------------- get_users_from_custom_list
LEAD_LOOKUP_DELAY_MIN == 8
LEAD_LOOKUP_DELAY_MAX == 15

\* random.uniform(a, b), by the two ends of its interval
Uniform(a, b) == {a, b}

\* base_min = LEAD_LOOKUP_DELAY_MIN + (consecutive_errors * 5)
base_min(n) == LEAD_LOOKUP_DELAY_MIN + n * 5

\* base_max = LEAD_LOOKUP_DELAY_MAX + (consecutive_errors * 10)
base_max(n) == LEAD_LOOKUP_DELAY_MAX + n * 10

\* backoff = min(60 + (consecutive_errors * 30), 300)
RateLimitBackoff(n) == Min(60 + n * 30, 300)

LookupOutcomes == {"ok", "rate_limited", "error"}

LeadFrame ==
    UNCHANGED <<coreVars, loginVars, spinVars, retryVars, lockVars, filterVars,
                deliverVars, notifyVars, counterVars, replyVars,
                reachVars>>

\* the next row of the list and the sleep before its lookup: 2 to 4 seconds
\* before the first lead, the ramp on consecutive_errors before the others
LeadRow(delay) ==
    /\ lead_pc = "rows"
    /\ lead_row < MaxLeads
    /\ delay \in IF lead_row = 0
                   THEN Uniform(2, 4)
                   ELSE Uniform(base_min(consecutive_errors),
                                base_max(consecutive_errors))
    /\ lead_row' = lead_row + 1
    /\ lead_delay' = delay
    /\ lead_pc' = "lookup"
    /\ UNCHANGED <<consecutive_errors, lead_backoff, lead_outcome>>
    /\ LeadFrame

\* user_info_by_username under retry_on_login_required: the user is yielded
\* and the count reset, or the exception is counted, slept on when it reads
\* as a rate limit, and the row skipped
LeadLookup(outcome) ==
    /\ lead_pc = "lookup"
    /\ lead_outcome' = outcome
    /\ consecutive_errors' = IF outcome = "ok" THEN 0 ELSE consecutive_errors + 1
    /\ lead_backoff' = IF outcome = "rate_limited"
                         THEN RateLimitBackoff(consecutive_errors')
                         ELSE 0
    /\ lead_pc' = "rows"
    /\ UNCHANGED <<lead_row, lead_delay>>
    /\ LeadFrame

\* "if not self.running: return" at the head of a row
LeadStop ==
    /\ lead_pc = "rows"
    /\ lead_row < MaxLeads
    /\ lead_pc' = "returned"
    /\ UNCHANGED <<lead_row, consecutive_errors, lead_delay, lead_backoff,
                   lead_outcome>>
    /\ LeadFrame

\* the rows are exhausted
LeadEnd ==
    /\ lead_pc = "rows"
    /\ lead_row = MaxLeads
    /\ lead_pc' = "returned"
    /\ UNCHANGED <<lead_row, consecutive_errors, lead_delay, lead_backoff,
                   lead_outcome>>
    /\ LeadFrame

\* --------------------------- the probe and the delay before a delivery
\* how InstagramLoginHelper.login() came to return True
LoginPaths == {"session", "sessionid", "password", "proxy"}

\* client._anti_detection is attached by the helper's constructor
HasProvider == ANTI_DETECTION_ENABLED

\* _last_request_time of the provider of a client that has just logged in:
\* a new AntiDetection starts with None, only the password stage calls
\* wait_for_request("login") on it, and a login through a fallback proxy
\* attaches a new one to the new client
TimedAfterLogin(path) == HasProvider /\ path = "password"

DeliverFrame ==
    UNCHANGED <<coreVars, loginVars, spinVars, retryVars, lockVars, filterVars,
                leadVars, notifyVars, counterVars, replyVars, reachVars>>

\* attempt_login_with_retry at the start of run(): self.client = helper.client
DeliverLogin(path, ok) ==
    /\ dlv_pc = "login"
    /\ last_request_time' = IF ok THEN TimedAfterLogin(path) ELSE last_request_time
    /\ dlv_pc' = IF ok THEN "target" ELSE "stopped"
    /\ UNCHANGED <<dlv_probed, dlv_slept, dlv_log>>
    /\ DeliverFrame

\* a target has passed the filters and its message is composed
DeliverCompose ==
    /\ dlv_pc = "target"
    /\ Len(dlv_log) < MaxDeliveries
    /\ dlv_pc' = "probe"
    /\ dlv_probed' = FALSE
    /\ dlv_slept' = FALSE
    /\ UNCHANGED <<last_request_time, dlv_log>>
    /\ DeliverFrame

\* the loop over the targets ends
DeliverStop ==
    /\ dlv_pc = "target"
    /\ dlv_pc' = "stopped"
    /\ UNCHANGED <<last_request_time, dlv_probed, dlv_slept, dlv_log>>
    /\ DeliverFrame

\* get_timeline_feed(); when it raises, client.relogin() keeps the client,
\* and failing that a new helper logs in and its client replaces the old one
ensure_session_valid(valid, relogin_ok, path, login_ok) ==
    /\ dlv_pc = "probe"
    /\ dlv_probed' = TRUE
    /\ last_request_time' =
          IF ~valid /\ ~relogin_ok /\ login_ok
             THEN TimedAfterLogin(path)
             ELSE last_request_time
    /\ dlv_pc' = "wait"
    /\ UNCHANGED <<dlv_slept, dlv_log>>
    /\ DeliverFrame

\* "if ad: ad.wait_for_request("dm")": the delay is slept only when
\* _last_request_time is not None, and the time is set afterwards
wait_for_request ==
    /\ dlv_pc = "wait"
    /\ dlv_slept' = (HasProvider /\ last_request_time)
    /\ last_request_time' = (HasProvider \/ last_request_time)
    /\ dlv_pc' = "send"
    /\ UNCHANGED <<dlv_probed, dlv_log>>
    /\ DeliverFrame

\* the delivery chain on the composed message
DeliverSend(ok) ==
    /\ dlv_pc = "send"
    /\ dlv_log' = Append(dlv_log, [probed |-> dlv_probed, slept |-> dlv_slept,
                                   sent |-> ok])
    /\ dlv_pc' = "target"
    /\ UNCHANGED <<last_request_time, dlv_probed, dlv_slept>>
    /\ DeliverFrame

\* ------------------------------------ on_message_sent and messages_sent
CounterFrame ==
    UNCHANGED <<coreVars, loginVars, spinVars, retryVars, lockVars, filterVars,
                leadVars, deliverVars, notifyVars, replyVars, reachVars>>

\* a delivery succeeded: worker_info["messages_sent"] += 1 and the
\* message_sent event is broadcast
MessageSent(w) ==
    /\ cnt_pc[w] = "idle"
    /\ sent_events < MaxSent
    /\ sent_events' = sent_events + 1
    /\ cnt_pc' = [cnt_pc EXCEPT ![w] = "emitted"]
    /\ UNCHANGED <<messages_sent, cnt_read, counter_lock>>
    /\ CounterFrame

\* routes/workers.py: "with _campaign_messages_sent_lock"
CounterLock(w) ==
    /\ launcher[w] = "route"
    /\ cnt_pc[w] = "emitted"
    /\ counter_lock = NoWorker
    /\ counter_lock' = w
    /\ cnt_pc' = [cnt_pc EXCEPT ![w] = "locked"]
    /\ UNCHANGED <<messages_sent, sent_events, cnt_read>>
    /\ CounterFrame

\* the statement of the callback that reads the counter: the route's
\* callback reaches it inside the with block, the poller's callback without
\* any lock
CounterReads(w) ==
    \/ launcher[w] = "route" /\ cnt_pc[w] = "locked"
    \/ launcher[w] = "poller" /\ cnt_pc[w] = "emitted"

\* campaign_data = db.get_campaign(campaign_id), answered by the store
CounterRead(w) ==
    /\ CounterReads(w)
    /\ cnt_read' = [cnt_read EXCEPT ![w] = messages_sent]
    /\ cnt_pc' = [cnt_pc EXCEPT ![w] = "read"]
    /\ UNCHANGED <<messages_sent, sent_events, counter_lock>>
    /\ CounterFrame

\* db.update_campaign(campaign_id, {"messages_sent": new_sent}) and the end
\* of the with block
CounterWrite(w) ==
    /\ cnt_pc[w] = "read"
    /\ messages_sent' = cnt_read[w] + 1
    /\ counter_lock' = IF counter_lock = w THEN NoWorker ELSE counter_lock
    /\ cnt_pc' = [cnt_pc EXCEPT ![w] = "idle"]
    /\ UNCHANGED <<sent_events, cnt_read>>
    /\ CounterFrame

\* ------------------------------ _process_unread_replies_for_account
Authors == {"me", "them"}

ReplyFrame ==
    UNCHANGED <<coreVars, loginVars, spinVars, retryVars, lockVars, filterVars,
                leadVars, deliverVars, notifyVars, counterVars, reachVars>>

\* the platform adds a message to the conversation
MessageArrives(author) ==
    /\ Len(inbox) < MaxMessages
    /\ inbox' = Append(inbox, author)
    /\ UNCHANGED <<last_seen_at, recorded, passes>>
    /\ ReplyFrame

\* the owner of the account opens the conversation in the app
OwnerReads ==
    /\ last_seen_at < Len(inbox)
    /\ last_seen_at' = Len(inbox)
    /\ UNCHANGED <<inbox, recorded, passes>>
    /\ ReplyFrame

\* direct_threads(selected_filter="unread") returns the conversation
Unread == last_seen_at < Len(inbox)

\* is_new and not from us
Recordable(m) == m > last_seen_at /\ inbox[m] # "me"

\* one pass over the account: login, the unread threads, their messages;
\* every recordable message goes to _append_reply and to new_reply
ReplyPass(login_ok) ==
    /\ passes < MaxPasses
    /\ passes' = passes + 1
    /\ recorded' = [m \in 1..MaxMessages |->
          IF login_ok /\ Unread /\ m <= Len(inbox) /\ Recordable(m)
          THEN recorded[m] + 1
          ELSE recorded[m]]
    /\ UNCHANGED <<inbox, last_seen_at>>
    /\ ReplyFrame

\* --------------------------------- reaching a target: lookup, check, work
Sources == {"list", "enumerated"}

TargetOutcomes == {"filtered", "failed", "sent"}

ReachFrame ==
    UNCHANGED <<coreVars, loginVars, spinVars, retryVars, lockVars, filterVars,
                leadVars, deliverVars, notifyVars, counterVars, replyVars>>

\* the target the for loop of the worker comes to next
ReachUser(w) == rc_idx[w] + 1

\* get_users_from_custom_list: the generator looks the next handle of the
\* imported list up (user_info_by_username) and yields the user when found;
\* a failed lookup goes on to the next row
ReachResolve(w, found) ==
    /\ rc_source[w] = "list"
    /\ rc_pc[w] = "next"
    /\ rc_idx[w] < MaxTargets
    /\ LET u == ReachUser(w) IN
        /\ rc_late' = IF u \in rc_processed
                      THEN [rc_late EXCEPT ![u] = @ + 1]
                      ELSE rc_late
        /\ IF found
           THEN /\ rc_pc' = [rc_pc EXCEPT ![w] = "resolved"]
                /\ UNCHANGED rc_idx
           ELSE /\ rc_idx' = [rc_idx EXCEPT ![w] = @ + 1]
                /\ UNCHANGED rc_pc
    /\ UNCHANGED <<rc_source, rc_processed, rc_handled, rc_outcome>>
    /\ ReachFrame

\* _shared_processed_users after the add (ReachAfter); the variant leaves
\* the add out
ReachAfterLost(u) == rc_processed

ReachAfter(u) == rc_processed \cup {u}

\* the loop of run() has a user: check-and-add under _shared_lock
ReachTake(w) ==
    /\ \/ rc_source[w] = "list" /\ rc_pc[w] = "resolved"
       \/ rc_source[w] = "enumerated" /\ rc_pc[w] = "next"
    /\ rc_idx[w] < MaxTargets
    /\ LET u == ReachUser(w) IN
        IF u \in rc_processed
        THEN /\ rc_idx' = [rc_idx EXCEPT ![w] = @ + 1]
             /\ rc_pc' = [rc_pc EXCEPT ![w] = "next"]
             /\ UNCHANGED <<rc_processed, rc_handled>>
        ELSE /\ rc_processed' = ReachAfter(u)
             /\ rc_handled' = [rc_handled EXCEPT ![u] = @ + 1]
             /\ rc_pc' = [rc_pc EXCEPT ![w] = "target"]
             /\ UNCHANGED rc_idx
    /\ UNCHANGED <<rc_source, rc_outcome, rc_late>>
    /\ ReachFrame

\* the work on the user: user_info and the filters, then the delivery; the
\* user is filtered out, the delivery fails, or the message goes out
ReachHandle(w, outcome) ==
    /\ rc_pc[w] = "target"
    /\ rc_outcome' = [rc_outcome EXCEPT ![ReachUser(w)] = outcome]
    /\ rc_idx' = [rc_idx EXCEPT ![w] = @ + 1]
    /\ rc_pc' = [rc_pc EXCEPT ![w] = "next"]
    /\ UNCHANGED <<rc_source, rc_processed, rc_handled, rc_late>>
    /\ ReachFrame

\* ------------------------------------------------------- specification
RegRestInit ==
    /\ campaign_status = [c \in Campaigns |-> "draft"]
    /\ worker_info = [w \in WorkerIds |-> NoInfo]
    /\ active_workers = {}
    /\ thread_state = [w \in WorkerIds |-> "none"]
    /\ next_id = 1
    /\ poll_pc = "sleep"
    /\ running_campaigns = {}
    /\ active_combos = {}
    /\ todo = <<>>
    /\ active_campaign_accounts = {}
    /\ poll_worker = NoWorker
    /\ poll_account = NotFound
    /\ poll_started = NoneStarted
    /\ poll_clean = TRUE
    /\ poll_n = 0
    /\ poll_errors = 0
    /\ route_pc = <<"idle">>

RegInit ==
    /\ RegRestInit
    /\ running = [w \in WorkerIds |-> FALSE]

NoCounts == [u \in Targets |-> 0]

\* run() locals of a thread that was never constructed
RunRest ==
    /\ run_pc = [w \in WorkerIds |-> "absent"]
    /\ target_mode = [w \in WorkerIds |-> 0]
    /\ message_count = [w \in WorkerIds |-> 1]
    /\ follow_ups = [w \in WorkerIds |-> 0]
    /\ fu_log = [w \in WorkerIds |-> <<>>]
    /\ users = [w \in WorkerIds |-> <<>>]
    /\ idx = [w \in WorkerIds |-> 0]
    /\ successful_messages = [w \in WorkerIds |-> 0]
    /\ auth_failure = [w \in WorkerIds |-> FALSE]
    /\ stop_requested = [w \in WorkerIds |-> FALSE]
    /\ processed = {}
    /\ complete_log = [w \in WorkerIds |-> <<>>]
    /\ exit_reason = [w \in WorkerIds |-> ""]
    /\ initial_sends = [w \in WorkerIds |-> 0]
    /\ accepted = NoCounts
    /\ delivered = NoCounts
    /\ send_method = [w \in WorkerIds |-> 0]
    /\ send_attempt = [w \in WorkerIds |-> 0]
    /\ send_retried = [w \in WorkerIds |-> FALSE]
    /\ dm_ok = NoCounts

\* no verification is pending and nobody waits for one
ChalRest ==
    /\ pending_challenges = {}
    /\ slot_code = [w \in WorkerIds |-> Null]
    /\ slot_event = [w \in WorkerIds |-> FALSE]
    /\ chal_pc = [w \in WorkerIds |-> "none"]
    /\ elapsed = [w \in WorkerIds |-> 0]
    /\ chal_code = [w \in WorkerIds |-> Null]
    /\ chal_result = [w \in WorkerIds |-> Null]
    /\ submit_log = <<>>

\* the Reply Monitor sleeps before its first pass
MonRest ==
    /\ mon_todo = {}
    /\ mon_last = "none"

LoginRest ==
    /\ ua_file = 0
    /\ device_file = 0
    /\ session_file = FALSE
    /\ helper = NoProfile
    /\ first_helper = NoProfile
    /\ sessionid = "none"
    /\ login_pc = "none"
    /\ attempt = 0
    /\ stage_log = <<>>
    /\ last_outcome = "none"
    /\ login_calls = 0
    /\ waits = <<>>
    /\ has_callback = FALSE
    /\ callback_calls = 0

SpinRest ==
    /\ spin_firstname = <<>>
    /\ spin_input = <<>>
    /\ spin_text = <<>>
    /\ spin_pc = "none"
    /\ spin_iters = 0
    /\ spin_round = 1
    /\ spin_template = <<>>

RetryRest ==
    /\ retry_password = FALSE
    /\ retry_pc = "none"
    /\ retry_attempt = 0
    /\ retry_calls = 0
    /\ retry_reauths = 0
    /\ retry_errors = <<>>

LockRest ==
    /\ shared_lock = Unlocked
    /\ registry_lock = Unlocked
    /\ lk_pc = [t \in LockThreads |-> IF t = Handler THEN "idle" ELSE "unborn"]
    /\ lk_op = NoOp
    /\ lk_running = [w \in WorkerIds |-> FALSE]
    /\ lk_processed = {}

FilterRest ==
    /\ followers_threshold = 0
    /\ country_filter_enabled = FALSE
    /\ bio_filter_enabled = FALSE
    /\ bio_keywords = <<>>
    /\ gender_filter = "all"
    /\ follower_count = 0
    /\ country = ""
    /\ bio_text = <<>>
    /\ detected_gender = "unknown"
    /\ flt_pc = "none"
    /\ flt_log = <<>>
    /\ flt_failed = "none"
    /\ flt_composed = FALSE
    /\ flt_attempts = 0

LeadRest ==
    /\ lead_pc = "none"
    /\ lead_row = 0
    /\ consecutive_errors = 0
    /\ lead_delay = 0
    /\ lead_backoff = 0
    /\ lead_outcome = "none"

DeliverRest ==
    /\ last_request_time = FALSE
    /\ dlv_pc = "none"
    /\ dlv_probed = FALSE
    /\ dlv_slept = FALSE
    /\ dlv_log = <<>>

NotifyRest ==
    /\ launcher = [w \in WorkerIds |-> "route"]
    /\ need_2fa = [w \in WorkerIds |-> FALSE]

CounterRest ==
    /\ messages_sent = 0
    /\ sent_events = 0
    /\ cnt_pc = [w \in WorkerIds |-> "idle"]
    /\ cnt_read = [w \in WorkerIds |-> 0]
    /\ counter_lock = NoWorker

ReplyRest ==
    /\ inbox = <<>>
    /\ last_seen_at = 0
    /\ recorded = [m \in 1..MaxMessages |-> 0]
    /\ passes = 0

ReachRestOf(source) ==
    /\ rc_source = source
    /\ rc_pc = [w \in WorkerIds |-> "next"]
    /\ rc_idx = [w \in WorkerIds |-> 0]
    /\ rc_processed = {}
    /\ rc_handled = [u \in Targets |-> 0]
    /\ rc_outcome = [u \in Targets |-> "none"]
    /\ rc_late = [u \in Targets |-> 0]

ReachRest == ReachRestOf([w \in WorkerIds |-> "enumerated"])

TailRest ==
    /\ LeadRest /\ DeliverRest /\ NotifyRest /\ CounterRest /\ ReplyRest
    /\ ReachRest

ExtraRest == RetryRest /\ LockRest /\ FilterRest /\ TailRest

AuxRest == LoginRest /\ SpinRest /\ ExtraRest

Init == RegInit /\ RunRest /\ ChalRest /\ MonRest /\ AuxRest

Next ==
    \/ PollFetchCampaigns
    \/ \E asg \in AssignmentMaps : PollSnapshotWorkers(asg)
    \/ PollVisitSkip
    \/ \E acct \in AccountRecords : PollVisitNoCreds(acct)
    \/ \E acct \in AccountRecords : PollVisitStart(acct)
    \/ \E acct \in AccountRecords : PollVisitFail(acct)
    \/ PollPostStart
    \/ PollPrune
    \/ \E a \in Accounts, c \in Campaigns : StartWorker(a, c)
    \/ StartWorkerPostStart
    \/ \E c \in Campaigns, s \in {"draft", "running"} : UpdateCampaign(c, s)
    \/ \E w \in WorkerIds : ThreadBegin(w)
    \/ \E w \in WorkerIds : ThreadError(w)
    \/ \E w \in WorkerIds, success \in BOOLEAN : ThreadComplete(w, success)

Spec == Init /\ [][Next]_vars

\* the life of registered workers under the routes: launch, stop, delete
\* the first account is assigned to the first campaign, the others to none
FirstAssigned == [a \in Accounts |-> IF a = 1 THEN 1 ELSE NoCampaign]

\* the row of an account that has a password
WithPassword == [found |-> TRUE, password |-> TRUE, session_cookies |-> FALSE]

\* one step of the poll loop
PollStep ==
    \/ PollFetchCampaigns
    \/ PollSnapshotWorkers(FirstAssigned)
    \/ PollVisitSkip
    \/ PollVisitStart(WithPassword)
    \/ PollPostStart
    \/ PollPrune

PollFairNext ==
    \/ PollStep
    \/ \E c \in Campaigns, s \in {"draft", "running"} : UpdateCampaign(c, s)
    \/ \E w \in WorkerIds : ThreadBegin(w)
    \/ \E w \in WorkerIds, success \in BOOLEAN : ThreadComplete(w, success)

\* the poll loop keeps running and every started thread runs to its end
PollFairness ==
    /\ WF_vars(PollStep)
    /\ \A w \in WorkerIds :
          /\ WF_vars(ThreadBegin(w))
          /\ WF_vars(\E success \in BOOLEAN : ThreadComplete(w, success))

PollFairSpec == Init /\ [][PollFairNext]_vars /\ PollFairness

LifeNext ==
    \/ \E a \in Accounts, c \in Campaigns : StartWorker(a, c)
    \/ StartWorkerPostStart
    \/ \E w \in WorkerIds : StopWorkerGet(w)
    \/ StopWorkerSignal
    \/ StopWorkerFinish
    \/ \E w \in WorkerIds : DeleteWorker(w)
    \/ \E w \in WorkerIds : ThreadBegin(w)
    \/ \E w \in WorkerIds : ThreadError(w)
    \/ \E w \in WorkerIds, success \in BOOLEAN : ThreadComplete(w, success)
    \/ MonitorSkip
    \/ \E S \in SUBSET Accounts : MonitorBegin(S)
    \/ MonitorAccount

LifeSpec == Init /\ [][LifeNext]_vars

\* one worker thread with any constructor arguments; the shared set holds
\* whatever earlier runs of the process left in it
RunInit ==
    /\ RegInit
    /\ run_pc = [w \in WorkerIds |-> IF w = 1 THEN "ready" ELSE "absent"]
    /\ \E m \in Modes : target_mode = [w \in WorkerIds |-> IF w = 1 THEN m ELSE 0]
    /\ \E q \in 1..MaxQuota :
           message_count = [w \in WorkerIds |-> IF w = 1 THEN q ELSE 1]
    /\ \E f \in 0..MaxFollowUps :
           follow_ups = [w \in WorkerIds |-> IF w = 1 THEN f ELSE 0]
    /\ fu_log = [w \in WorkerIds |-> <<>>]
    /\ users = [w \in WorkerIds |-> <<>>]
    /\ idx = [w \in WorkerIds |-> 0]
    /\ successful_messages = [w \in WorkerIds |-> 0]
    /\ auth_failure = [w \in WorkerIds |-> FALSE]
    /\ stop_requested = [w \in WorkerIds |-> FALSE]
    /\ processed \in SUBSET Targets
    /\ complete_log = [w \in WorkerIds |-> <<>>]
    /\ exit_reason = [w \in WorkerIds |-> ""]
    /\ initial_sends = [w \in WorkerIds |-> 0]
    /\ accepted = NoCounts
    /\ delivered = NoCounts
    /\ send_method = [w \in WorkerIds |-> 0]
    /\ send_attempt = [w \in WorkerIds |-> 0]
    /\ send_retried = [w \in WorkerIds |-> FALSE]
    /\ dm_ok = NoCounts
    /\ ChalRest
    /\ MonRest
    /\ AuxRest

RunNext ==
    \/ \E w \in WorkerIds : RunStop(w)
    \/ \E w \in WorkerIds : RunBegin(w)
    \/ \E w \in WorkerIds : RunLoginOk(w)
    \/ \E w \in WorkerIds : RunLoginFail(w)
    \/ \E w \in WorkerIds : RunInvalidMode(w)
    \/ \E w \in WorkerIds : RunNoLeads(w)
    \/ \E w \in WorkerIds, af \in BOOLEAN : RunNoUsers(w, af)
    \/ \E w \in WorkerIds, k \in 0..MaxTargets, af \in BOOLEAN : RunResolve(w, k, af)
    \/ \E w \in WorkerIds : LoopCancelled(w)
    \/ \E w \in WorkerIds : LoopTake(w)
    \/ \E w \in WorkerIds : TargetSkip(w)
    \/ \E w \in WorkerIds : TargetChallenge(w)
    \/ \E w \in WorkerIds, code \in BOOLEAN, relogin \in BOOLEAN :
           ChallengeReturn(w, code, relogin)
    \/ \E w \in WorkerIds, kind \in FailureKinds, reauth \in BOOLEAN,
          challenge \in BOOLEAN : SendFail(w, kind, reauth, challenge)
    \/ \E w \in WorkerIds, res \in FollowUpResults : TargetSend(w, res)
    \/ \E w \in WorkerIds : LoopFinish(w)
    \/ \E w \in WorkerIds : CriticalError(w)

RunSpec == RunInit /\ [][RunNext]_vars

\* one hashtag worker with up to MaxFollowUpsTried follow-ups configured and
\* nothing processed by other workers
FollowInit ==
    /\ RegInit
    /\ run_pc = [w \in WorkerIds |-> IF w = 1 THEN "ready" ELSE "absent"]
    /\ target_mode = [w \in WorkerIds |-> 0]
    /\ \E q \in 1..MaxQuota :
           message_count = [w \in WorkerIds |-> IF w = 1 THEN q ELSE 1]
    /\ \E f \in 0..MaxFollowUpsTried :
           follow_ups = [w \in WorkerIds |-> IF w = 1 THEN f ELSE 0]
    /\ fu_log = [w \in WorkerIds |-> <<>>]
    /\ users = [w \in WorkerIds |-> <<>>]
    /\ idx = [w \in WorkerIds |-> 0]
    /\ successful_messages = [w \in WorkerIds |-> 0]
    /\ auth_failure = [w \in WorkerIds |-> FALSE]
    /\ stop_requested = [w \in WorkerIds |-> FALSE]
    /\ processed = {}
    /\ complete_log = [w \in WorkerIds |-> <<>>]
    /\ exit_reason = [w \in WorkerIds |-> ""]
    /\ initial_sends = [w \in WorkerIds |-> 0]
    /\ accepted = NoCounts
    /\ delivered = NoCounts
    /\ send_method = [w \in WorkerIds |-> 0]
    /\ send_attempt = [w \in WorkerIds |-> 0]
    /\ send_retried = [w \in WorkerIds |-> FALSE]
    /\ dm_ok = NoCounts
    /\ ChalRest
    /\ MonRest
    /\ AuxRest

FollowNext ==
    \/ \E w \in WorkerIds : RunStop(w)
    \/ \E w \in WorkerIds : RunBegin(w)
    \/ \E w \in WorkerIds : RunLoginOk(w)
    \/ \E w \in WorkerIds : RunLoginFail(w)
    \/ \E w \in WorkerIds, af \in BOOLEAN : RunNoUsers(w, af)
    \/ \E w \in WorkerIds, k \in 0..MaxTargets, af \in BOOLEAN : RunResolve(w, k, af)
    \/ \E w \in WorkerIds : LoopCancelled(w)
    \/ \E w \in WorkerIds : LoopTake(w)
    \/ \E w \in WorkerIds : TargetSkip(w)
    \/ \E w \in WorkerIds : TargetChallenge(w)
    \/ \E w \in WorkerIds, code \in BOOLEAN, relogin \in BOOLEAN :
           ChallengeReturn(w, code, relogin)
    \/ \E w \in WorkerIds, kind \in FailureKinds, reauth \in BOOLEAN,
          challenge \in BOOLEAN : SendFail(w, kind, reauth, challenge)
    \/ \E w \in WorkerIds, res \in FollowUpResults : TargetSend(w, res)
    \/ \E w \in WorkerIds : LoopFinish(w)
    \/ \E w \in WorkerIds : CriticalError(w)

FollowSpec == FollowInit /\ [][FollowNext]_vars

\* every worker of the process runs the same hashtag campaign and has entered
\* run(): logins succeed, the search returns the same users to each of them
PoolInit ==
    /\ RegRestInit
    /\ running = [w \in WorkerIds |-> TRUE]
    /\ run_pc = [w \in WorkerIds |-> "login"]
    /\ target_mode = [w \in WorkerIds |-> 0]
    /\ message_count = [w \in WorkerIds |-> MaxQuota]
    /\ follow_ups = [w \in WorkerIds |-> 0]
    /\ fu_log = [w \in WorkerIds |-> <<>>]
    /\ users = [w \in WorkerIds |-> <<>>]
    /\ idx = [w \in WorkerIds |-> 0]
    /\ successful_messages = [w \in WorkerIds |-> 0]
    /\ auth_failure = [w \in WorkerIds |-> FALSE]
    /\ stop_requested = [w \in WorkerIds |-> FALSE]
    /\ processed = {}
    /\ complete_log = [w \in WorkerIds |-> <<>>]
    /\ exit_reason = [w \in WorkerIds |-> ""]
    /\ initial_sends = [w \in WorkerIds |-> 0]
    /\ accepted = NoCounts
    /\ delivered = NoCounts
    /\ send_method = [w \in WorkerIds |-> 0]
    /\ send_attempt = [w \in WorkerIds |-> 0]
    /\ send_retried = [w \in WorkerIds |-> FALSE]
    /\ dm_ok = NoCounts
    /\ ChalRest
    /\ MonRest
    /\ AuxRest

PoolNext ==
    \/ \E w \in WorkerIds : RunStop(w)
    \/ \E w \in WorkerIds : RunLoginOk(w)
    \/ \E w \in WorkerIds : RunResolve(w, MaxTargets, FALSE)
    \/ \E w \in WorkerIds : LoopCancelled(w)
    \/ \E w \in WorkerIds : LoopTake(w)
    \/ \E w \in WorkerIds : TargetSkip(w)
    \/ \E w \in WorkerIds : TargetChallenge(w)
    \/ \E w \in WorkerIds, code \in BOOLEAN, relogin \in BOOLEAN :
           ChallengeReturn(w, code, relogin)
    \/ \E w \in WorkerIds : TargetSend(w, <<>>)
    \/ \E w \in WorkerIds : LoopFinish(w)

PoolSpec == PoolInit /\ [][PoolNext]_vars

\* the workers POST /start has launched so far
Launched == {1, 2}

\* two accounts work on campaign 1, both threads are in run()
ChalRegInit ==
    /\ campaign_status = [c \in Campaigns |-> IF c = 1 THEN "running" ELSE "draft"]
    /\ worker_info = [w \in WorkerIds |->
           IF w \in Launched
           THEN [username |-> w, campaign_id |-> 1, status |-> "running"]
           ELSE NoInfo]
    /\ active_workers = Launched
    /\ thread_state = [w \in WorkerIds |-> IF w \in Launched THEN "running" ELSE "none"]
    /\ running = [w \in WorkerIds |-> w \in Launched]
    /\ next_id = 3
    /\ poll_pc = "sleep"
    /\ running_campaigns = {}
    /\ active_combos = {}
    /\ todo = <<>>
    /\ active_campaign_accounts = {}
    /\ poll_worker = NoWorker
    /\ poll_account = NotFound
    /\ poll_started = NoneStarted
    /\ poll_clean = TRUE
    /\ poll_n = 0
    /\ poll_errors = 0
    /\ route_pc = <<"idle">>
    /\ RunRest
    /\ ChalRest
    /\ MonRest

ChalInit == ChalRegInit /\ AuxRest

ChalNext ==
    \/ \E w \in WorkerIds : ChalRequest(w)
    \/ Tick
    \/ \E w \in WorkerIds : ChalWake(w)
    \/ \E w \in WorkerIds : ChalRead(w)
    \/ \E w \in WorkerIds : ChalReturn(w)
    \/ \E w \in WorkerIds : ChalResume(w)
    \/ \E w \in WorkerIds, code \in Codes : SubmitChallengeCode(w, code)
    \/ \E w \in WorkerIds : DeleteWorker(w)

\* the clock runs and a thread whose wait is over gets the processor
ChalFairness ==
    /\ WF_vars(Tick)
    /\ \A w \in Launched :
          WF_vars(ChalWake(w)) /\ WF_vars(ChalRead(w)) /\ WF_vars(ChalReturn(w))

ChalSpec == ChalInit /\ [][ChalNext]_vars /\ ChalFairness

\* the launched workers, each with the callback of one of the launchers
NotifyInit ==
    /\ ChalRegInit
    /\ LoginRest /\ SpinRest /\ RetryRest /\ LockRest /\ FilterRest
    /\ LeadRest /\ DeliverRest /\ CounterRest /\ ReplyRest /\ ReachRest
    /\ launcher \in [WorkerIds -> Launchers]
    /\ need_2fa = [w \in WorkerIds |-> FALSE]

NotifyNext ==
    \/ \E w \in WorkerIds : RouteSlot(w)
    \/ \E w \in WorkerIds : RouteNotify(w)
    \/ \E w \in WorkerIds : PollerNotify(w)
    \/ \E w \in WorkerIds : PollerSlot(w)
    \/ Tick
    \/ \E w \in WorkerIds : ChalWake(w)
    \/ \E w \in WorkerIds : ChalRead(w)
    \/ \E w \in WorkerIds : ChalReturn(w)
    \/ \E w \in WorkerIds : ChalResume(w)
    \/ \E w \in WorkerIds, code \in Codes : SubmitChallengeCode(w, code)

NotifySpec == NotifyInit /\ [][NotifyNext]_vars

LoginInit ==
    /\ RegInit /\ RunRest /\ ChalRest /\ MonRest
    /\ LoginRest /\ SpinRest /\ ExtraRest

LoginNext ==
    \/ \E sid \in SessionIds : \E ua, ids, dev, reg \in Profiles :
          NewHelper(sid, ua, ids, dev, reg)
    \/ \E valid \in BOOLEAN : LoginLoadSession(valid)
    \/ \E valid \in BOOLEAN : LoginSessionId(valid)
    \/ \E outcome \in LoginOutcomes : \E chal_ok, proxy_ok \in BOOLEAN :
          LoginPassword(outcome, chal_ok, proxy_ok)

LoginSpec == LoginInit /\ [][LoginNext]_vars

\* the thread that called login() keeps running it
LoginStep ==
    \/ \E valid \in BOOLEAN : LoginLoadSession(valid)
    \/ \E valid \in BOOLEAN : LoginSessionId(valid)
    \/ \E outcome \in LoginOutcomes : \E chal_ok, proxy_ok \in BOOLEAN :
          LoginPassword(outcome, chal_ok, proxy_ok)

LoginFairSpec == LoginSpec /\ WF_vars(LoginStep)

\* apply_spintax on any template and first name, then on its own output
SpinInit ==
    /\ RegInit /\ RunRest /\ ChalRest /\ MonRest /\ LoginRest /\ ExtraRest
    /\ spin_template \in TextsUpTo(MaxTemplateLen)
    /\ spin_firstname \in FirstNames
    /\ spin_input = spin_template
    /\ spin_text = spin_template
    /\ spin_pc = "start"
    /\ spin_iters = 0
    /\ spin_round = 1

SpinNext ==
    \/ SpinBegin
    \/ \E k \in 1..(MaxTemplateLen + 1) : SpinStep(k)
    \/ SpinReturn
    \/ SpinAgain

SpinSpec == SpinInit /\ [][SpinNext]_vars

\* one call of retry_on_login_required, with or without a password, on an
\* operation that may fail in any way each time it is called
RetryInit ==
    /\ RegInit /\ RunRest /\ ChalRest /\ MonRest /\ LoginRest /\ SpinRest
    /\ LockRest /\ FilterRest /\ TailRest
    /\ retry_password \in BOOLEAN
    /\ retry_pc = "call"
    /\ retry_attempt = 0
    /\ retry_calls = 0
    /\ retry_reauths = 0
    /\ retry_errors = <<>>

RetryNext ==
    \E outcome \in {"ok"} \cup FailureKinds : \E relogin_ok, login_ok \in BOOLEAN :
        RetryPass(outcome, relogin_ok, login_ok)

RetrySpec == RetryInit /\ [][RetryNext]_vars /\ WF_vars(RetryNext)

\* the threads of one process around the two mutexes
LockInit ==
    /\ RegInit /\ RunRest /\ ChalRest /\ MonRest /\ LoginRest /\ SpinRest
    /\ RetryRest /\ FilterRest /\ TailRest
    /\ LockRest

LockNext ==
    \/ \E op \in RegistryOps, w \in WorkerIds : HandlerAcquire(op, w)
    \/ HandlerCritical
    \/ HandlerStart
    \/ \E w \in WorkerIds : WorkerNext(w)
    \/ \E w \in WorkerIds : WorkerExit(w)
    \/ \E w \in WorkerIds : SharedAcquire(w)
    \/ \E w \in WorkerIds, u \in Targets : SharedCritical(w, u)
    \/ \E w \in WorkerIds, outcome \in {"ok", "challenge", "error"} :
           PlatformRequest(w, outcome)
    \/ \E w \in WorkerIds : RegistryAcquire(w)
    \/ \E w \in WorkerIds, retry \in BOOLEAN : RegistryCritical(w, retry)
    \/ \E w \in WorkerIds : VerificationWait(w)
    \/ \E w \in WorkerIds : WorkerSleep(w)

LockSpec == LockInit /\ [][LockNext]_vars

\* one target before the filters, for every configuration of the sample
FilterInit ==
    /\ RegInit /\ RunRest /\ ChalRest /\ MonRest /\ LoginRest /\ SpinRest
    /\ RetryRest /\ LockRest /\ TailRest
    /\ followers_threshold \in 0..1
    /\ country_filter_enabled \in BOOLEAN
    /\ bio_filter_enabled \in BOOLEAN
    /\ bio_keywords \in KeywordLists(MaxKeywords)
    /\ gender_filter \in {"all", "female"}
    /\ follower_count \in 0..1
    /\ country \in Countries
    /\ bio_text \in BiosUpTo(MaxBioLen)
    /\ detected_gender \in {"unknown", "male", "female"}
    /\ flt_pc = "followers"
    /\ flt_log = <<>>
    /\ flt_failed = "none"
    /\ flt_composed = FALSE
    /\ flt_attempts = 0

FilterNext ==
    \/ FilterFollowers
    \/ FilterCountry
    \/ FilterBio
    \/ FilterGender
    \/ FilterCompose
    \/ \E ok \in BOOLEAN : FilterDeliver(ok)

FilterSpec == FilterInit /\ [][FilterNext]_vars

\* one imported list of MaxLeads rows, before its first row
LeadInit ==
    /\ RegInit /\ RunRest /\ ChalRest /\ MonRest /\ LoginRest /\ SpinRest
    /\ RetryRest /\ LockRest /\ FilterRest /\ DeliverRest /\ NotifyRest
    /\ CounterRest /\ ReplyRest /\ ReachRest
    /\ lead_pc = "rows"
    /\ lead_row = 0
    /\ consecutive_errors = 0
    /\ lead_delay = 0
    /\ lead_backoff = 0
    /\ lead_outcome = "none"

LeadNext ==
    \/ \E delay \in 0..(LEAD_LOOKUP_DELAY_MAX + MaxLeads * 10) : LeadRow(delay)
    \/ \E outcome \in LookupOutcomes : LeadLookup(outcome)
    \/ LeadStop
    \/ LeadEnd

LeadSpec == LeadInit /\ [][LeadNext]_vars

\* one run from its login on, with the provider of a new client
DeliverInit ==
    /\ RegInit /\ RunRest /\ ChalRest /\ MonRest /\ LoginRest /\ SpinRest
    /\ RetryRest /\ LockRest /\ FilterRest /\ LeadRest /\ NotifyRest
    /\ CounterRest /\ ReplyRest /\ ReachRest
    /\ last_request_time = FALSE
    /\ dlv_pc = "login"
    /\ dlv_probed = FALSE
    /\ dlv_slept = FALSE
    /\ dlv_log = <<>>

DeliverNext ==
    \/ \E path \in LoginPaths, ok \in BOOLEAN : DeliverLogin(path, ok)
    \/ DeliverCompose
    \/ DeliverStop
    \/ \E valid, relogin_ok, login_ok \in BOOLEAN : \E path \in LoginPaths :
           ensure_session_valid(valid, relogin_ok, path, login_ok)
    \/ wait_for_request
    \/ \E ok \in BOOLEAN : DeliverSend(ok)

DeliverSpec == DeliverInit /\ [][DeliverNext]_vars

\* concurrent workers of one campaign, each with the callback of a launcher
CounterInit ==
    /\ RegInit /\ RunRest /\ ChalRest /\ MonRest /\ LoginRest /\ SpinRest
    /\ RetryRest /\ LockRest /\ FilterRest /\ LeadRest /\ DeliverRest
    /\ ReplyRest /\ CounterRest /\ ReachRest
    /\ launcher \in [WorkerIds -> Launchers]
    /\ need_2fa = [w \in WorkerIds |-> FALSE]

CounterNext ==
    \/ \E w \in WorkerIds : MessageSent(w)
    \/ \E w \in WorkerIds : CounterLock(w)
    \/ \E w \in WorkerIds : CounterRead(w)
    \/ \E w \in WorkerIds : CounterWrite(w)

CounterSpec == CounterInit /\ [][CounterNext]_vars

\* one conversation of one monitored account, empty at first
ReplyInit ==
    /\ RegInit /\ RunRest /\ ChalRest /\ MonRest /\ LoginRest /\ SpinRest
    /\ RetryRest /\ LockRest /\ FilterRest /\ LeadRest /\ DeliverRest
    /\ NotifyRest /\ CounterRest /\ ReplyRest /\ ReachRest

ReplyNext ==
    \/ \E author \in Authors : MessageArrives(author)
    \/ OwnerReads
    \/ \E login_ok \in BOOLEAN : ReplyPass(login_ok)

ReplySpec == ReplyInit /\ [][ReplyNext]_vars

\* run() calls on_complete outside any challenge callback
CompleteAfterCallbacks(w, success) ==
    /\ chal_pc[w] = "none"
    /\ ThreadComplete(w, success)

RemoveNext ==
    \/ ChalNext
    \/ \E w \in WorkerIds, success \in BOOLEAN : CompleteAfterCallbacks(w, success)
    \/ \E w \in WorkerIds : StopWorkerGet(w)
    \/ StopWorkerSignal
    \/ StopWorkerFinish

RemoveSpec == ChalInit /\ [][RemoveNext]_vars

\* concurrent workers, each with its kind of target source, on one list
ReachInit ==
    /\ RegInit /\ RunRest /\ ChalRest /\ MonRest /\ LoginRest /\ SpinRest
    /\ RetryRest /\ LockRest /\ FilterRest /\ LeadRest /\ DeliverRest
    /\ NotifyRest /\ CounterRest /\ ReplyRest
    /\ \E source \in [WorkerIds -> Sources] : ReachRestOf(source)

ReachNext ==
    \/ \E w \in WorkerIds, found \in BOOLEAN : ReachResolve(w, found)
    \/ \E w \in WorkerIds : ReachTake(w)
    \/ \E w \in WorkerIds, outcome \in TargetOutcomes : ReachHandle(w, outcome)

ReachSpec == ReachInit /\ [][ReachNext]_vars

\* ======================================================= claims
RECURSIVE SumOver(_, _)
SumOver(f, S) ==
    IF S = {} THEN 0
    ELSE LET k == CHOOSE x \in S : TRUE IN f[k] + SumOver(f, S \ {k})

\* workers whose thread was started and has not invoked on_complete
ExecutingWorkers(a, c) ==
    {w \in WorkerIds :
        /\ thread_state[w] \in {"started", "running"}
        /\ worker_info[w].username = a
        /\ worker_info[w].campaign_id = c}

\* C1: in every reachable state each (account, campaign) pair has at most one
\* worker that was started and has not yet invoked its completion callback.
C1_AtMostOneWorkerPerCombo ==
    \A a \in Accounts, c \in Campaigns : Cardinality(ExecutingWorkers(a, c)) <= 1

\* C2: a poll cycle that found the registry empty starts at most N workers, N
\* the number of accounts assigned to its running campaigns, and at most one
\* per (account, campaign) pair.
C2_PollCycleLaunchBound ==
    poll_clean =>
        /\ SumOver(poll_started, Combos) <= poll_n
        /\ \A k \in Combos : poll_started[k] <= 1

\* a cycle over an empty registry has visited every pair and launched a
\* worker for each of its N >= 2 assigned accounts
C2_Witness ==
    /\ poll_clean
    /\ poll_pc = "visit"
    /\ todo = <<>>
    /\ poll_n >= 2
    /\ SumOver(poll_started, Combos) = poll_n

\* C3: whatever the interleaving of the workers, each target id passes the
\* check-and-add of the shared processed set for at most one worker and gets
\* at most one initial message.
C3_TargetAcceptedOnce ==
    \A u \in Targets : accepted[u] <= 1 /\ delivered[u] <= 1

\* two workers have both gone past target 1, which one of them accepted and
\* messaged
C3_Witness ==
    /\ \A w \in 1..2 : Len(users[w]) >= 1 /\ idx[w] >= 1
    /\ accepted[1] = 1
    /\ delivered[1] = 1

\* C4: at every state of a run the number of successful initial sends is at
\* most the configured quota.
C4_InitialSendsWithinQuota ==
    \A w \in WorkerIds : initial_sends[w] <= message_count[w]

\* C5: once the running count of successful messages has reached the quota
\* the worker works on no further target.
C5_NoTargetAfterQuota ==
    \A w \in WorkerIds :
        run_pc[w] \in {"target", "challenge"} =>
            successful_messages[w] < message_count[w]

\* C6: a run never invokes the completion callback twice, and it has invoked
\* it exactly once when run() has returned, whichever path it returned by.
C6_CompleteExactlyOnce ==
    \A w \in WorkerIds :
        /\ Len(complete_log[w]) <= 1
        /\ run_pc[w] = "done" <=> Len(complete_log[w]) = 1

\* a run that messaged a target, was stopped and left by the cancelled path
C6_Witness ==
    \E w \in WorkerIds :
        /\ run_pc[w] = "done"
        /\ exit_reason[w] = "cancelled"
        /\ initial_sends[w] >= 1
        /\ Len(complete_log[w]) = 1

\* C7: a run that ended after a login failure, an unexpected exception or
\* with the authentication-failure flag set reported success = False.
C7_FailureReportsFalse ==
    \A w \in WorkerIds :
        (Len(complete_log[w]) >= 1
            /\ (auth_failure[w] \/ exit_reason[w] \in {"login_failed", "critical"}))
        => ~complete_log[w][1]

\* a status is terminal: completed, stopped, or error set by on_complete
Terminal(w) ==
    /\ thread_state[w] # "none"
    /\ \/ worker_info[w].status \in {"completed", "stopped"}
       \/ worker_info[w].status = "error" /\ thread_state[w] = "finished"

\* C8: the status of a worker that is completed, failed or stopped never
\* changes again.
C8_TerminalStatusIsFinal ==
    [][\A w \in WorkerIds :
          Terminal(w) => worker_info'[w].status = worker_info[w].status]_vars

\* C9: a verification wait that gets no code lasts until the 300-second
\* timeout has elapsed and no longer, hands the worker a denial, and leaves
\* no slot of the worker in the registry; every wait comes to its end.
C9_TimeoutEndsWait ==
    /\ [](\A w \in WorkerIds :
            /\ chal_pc[w] = "waiting" => elapsed[w] <= ChallengeTimeout
            /\ (chal_pc[w] \in {"woken", "read", "returned"} /\ ~slot_event[w])
                   => elapsed[w] = ChallengeTimeout
            /\ (chal_pc[w] = "returned" /\ ~slot_event[w])
                   => chal_result[w] = Denied /\ w \notin pending_challenges)
    /\ \A w \in Launched : (chal_pc[w] = "waiting") ~> (chal_pc[w] = "returned")

\* a wait has timed out without a code and the callback has returned
C9_Witness ==
    \E w \in WorkerIds :
        /\ chal_pc[w] = "returned"
        /\ ~slot_event[w]
        /\ elapsed[w] = ChallengeTimeout
        /\ chal_result[w] = Denied

\* C10: set_challenge_code for a worker without a pending slot answers False
\* and changes nothing in the registry; with a slot it stores the code, sets
\* the event the waiter blocks on and answers True.
C10_SetChallengeCode ==
    [][submit_log' # submit_log =>
        LET w == submit_log'[1]
            code == submit_log'[2]
            ok == submit_log'[3]
        IN  IF w \in pending_challenges
            THEN /\ ok
                 /\ slot_code'[w] = code
                 /\ slot_event'[w]
                 /\ pending_challenges' = pending_challenges
            ELSE /\ ~ok
                 /\ UNCHANGED <<pending_challenges, slot_code, slot_event>>]_vars

\* a submitted code reached the waiter, which returned it to the worker
C10_Witness ==
    /\ submit_log # <<>>
    /\ submit_log[3]
    /\ chal_pc[submit_log[1]] = "returned"
    /\ chal_result[submit_log[1]] = submit_log[2]
    /\ elapsed[submit_log[1]] < ChallengeTimeout

\* the fetched account is missing or has neither password nor session token
Unusable(acct) == ~acct.found \/ (~acct.password /\ ~acct.session_cookies)

\* C11: the poller launches a worker, and adds a pair to its tracking set,
\* only in a visit whose account was found with a password or a session
\* token; a visit of a missing account or of one without both does neither.
C11_NoCredentialsNoWorker ==
    [][/\ (\E k \in Combos : poll_started'[k] > poll_started[k])
             => ~Unusable(poll_account')
       /\ ~(active_campaign_accounts' \subseteq active_campaign_accounts)
             => ~Unusable(poll_account)
       /\ (poll_pc = "visit" /\ todo # <<>> /\ poll_account' # poll_account
             /\ Unusable(poll_account'))
             => /\ UNCHANGED <<next_id, active_workers, thread_state>>
                /\ UNCHANGED <<active_campaign_accounts, poll_started>>
                /\ poll_pc' = "visit"
                /\ todo' = Tail(todo)]_vars

\* a cycle has visited all its pairs, the last one an account that exists
\* without credentials, and has launched nothing and tracked nothing
C11_Witness ==
    /\ poll_pc = "visit"
    /\ todo = <<>>
    /\ poll_n >= 1
    /\ poll_account.found
    /\ Unusable(poll_account)
    /\ SumOver(poll_started, Combos) = 0
    /\ active_campaign_accounts = {}

\* C12: whatever login-required failures, re-logins, waits and fallback
\* methods the initial send of a target goes through, it emits at most one
\* message_sent, and exactly one when a delivery call succeeded.
C12_OneEventPerTarget ==
    \A u \in Targets : delivered[u] <= 1 /\ delivered[u] = dm_ok[u]

\* a delivery call was repeated for the target the worker has just left,
\* and the target got its one message_sent
C12_Witness ==
    \E w \in WorkerIds :
        /\ run_pc[w] = "loop"
        /\ idx[w] >= 1
        /\ send_retried[w]
        /\ delivered[users[w][idx[w]]] = 1

\* C13: a Reply Monitor pass that starts while the registry holds an entry
\* whose worker has not completed, failed or been stopped polls no account.
C13_MonitorSkipsWhileWorking ==
    [][(mon_todo = {} /\ mon_todo' # {})
          => \A w \in active_workers : Terminal(w)]_vars

\* C14: once stop() has been called on a worker, whenever that was, the
\* worker takes no new target from its iteration.
C14_NoNewTargetAfterStop ==
    [][\A w \in WorkerIds :
          (stop_requested[w] /\ run_pc[w] # "target" /\ run_pc[w] # "challenge")
              => (run_pc'[w] # "target" /\ idx'[w] = idx[w])]_vars

\* C15: between two rotations every helper created for the account presents
\* the profile (user agent, device ids, device, region) of the first one.
C15_SameProfileBetweenRotations ==
    (first_helper # NoProfile /\ helper # NoProfile) => helper = first_helper

\* C16: the persisted fingerprint files are deleted only when the password
\* attempt ended in a failed verification challenge.
C16_RotateOnlyOnChallenge ==
    [][((ua_file # 0 /\ ua_file' = 0) \/ (device_file # 0 /\ device_file' = 0))
          => last_outcome' = "challenge"]_vars

StageRank(stage) ==
    CASE stage = "saved" -> 1 [] stage = "token" -> 2 [] stage = "password" -> 3

\* C20: login() runs its stages in the order saved session, session token,
\* password; the token stage only with a token supplied and after the saved
\* session failed, the password stage only after every earlier stage failed;
\* it returns true at the first success, with no later stage attempted.
C20_StagesInOrder ==
    LET n == Len(stage_log)
        InProgress == IF login_pc \in {"token", "password"}
                         THEN <<[stage |-> login_pc, ok |-> FALSE]>> ELSE <<>>
        tried == stage_log \o InProgress
        m == Len(tried)
    IN /\ \A i, j \in 1..m :
             i < j => /\ StageRank(tried[i].stage) < StageRank(tried[j].stage)
                      /\ ~tried[i].ok
       /\ m >= 1 => tried[1].stage = "saved"
       /\ \A i \in 1..m : tried[i].stage = "token" => sessionid # "none"
       /\ login_pc = "true" <=> (n >= 1 /\ stage_log[n].ok)
       /\ login_pc = "true" => m = n

C20_Witness ==
    /\ login_pc = "true"
    /\ Len(stage_log) = 3
    /\ sessionid = "full"
    /\ attempt = 2

Balanced(text, i, j) ==
    LET Opens(k) == Cardinality({h \in (i + 1)..k : text[h] = "["})
        Closes(k) == Cardinality({h \in (i + 1)..k : text[h] = "]"})
    IN /\ \A k \in (i + 1)..(j - 1) : Closes(k) <= Opens(k)
       /\ Closes(j - 1) = Opens(j - 1)

Groups(text) ==
    {m \in (1..Len(text)) \X (1..Len(text)) :
        /\ m[1] < m[2]
        /\ text[m[1]] = "[" /\ text[m[2]] = "]"
        /\ Balanced(text, m[1], m[2])
        /\ \E k \in (m[1] + 1)..(m[2] - 1) : text[k] = "|"}

\* C18: the while loop of apply_spintax makes at most as many passes as the
\* template has bracket groups containing "|", nested ones included.
C18_IterationsWithinGroups ==
    spin_round = 1 => spin_iters <= Cardinality(Groups(spin_template))

HasToken(text) == \E i \in 1..(Len(text) - 1) : Slice(text, i, i + 1) = Token

\* C19: a text without a bracket group of alternatives is returned unchanged;
\* the output has no remaining group, and applying apply_spintax to it again
\* with the same first name returns it unchanged.
C19_NoGroupUnchanged ==
    spin_pc = "done" =>
        /\ Matches(spin_input) = {} => spin_text = spin_input
        /\ Matches(spin_text) = {}
        /\ spin_round = 2 => spin_text = spin_input

\* C19 as amended: the same, for a text that holds no {firstname} token
\* unless the first name is empty.
C19_NoGroupNoTokenUnchanged ==
    spin_pc = "done" =>
        /\ (Matches(spin_input) = {}
              /\ (spin_firstname = <<>> \/ ~HasToken(spin_input)))
              => spin_text = spin_input
        /\ Matches(spin_text) = {}
        /\ (spin_round = 2
              /\ (spin_firstname = <<>> \/ ~HasToken(spin_input)))
              => spin_text = spin_input

C19_Witness ==
    /\ spin_pc = "done"
    /\ spin_round = 2
    /\ Matches(spin_template) # {}
    /\ spin_firstname = <<"a">>
    /\ ~HasToken(spin_input)
    /\ spin_text = spin_input
    /\ spin_text # <<>>

LoginEnded == login_pc \in {"true", "false", "raised"}

\* C21: one login() makes at most 3 client.login() calls on the primary
\* connection; a further call follows only a transient server error and the
\* next sleep of the table 30, 60, 120; any other result ends the call; and
\* login() always ends by returning or raising.
C21_PasswordStageBounded ==
    /\ [](/\ login_calls <= LoginMaxRetries
          /\ Len(waits) <= login_calls
          /\ \A i \in 1..Len(waits) : waits[i] = Backoff[i])
    /\ [][(login_calls >= 1 /\ login_calls' = login_calls + 1)
             => (last_outcome = "server_error" /\ Len(waits) = login_calls)]_vars
    /\ [][(login_calls' = login_calls + 1 /\ last_outcome' # "server_error")
             => LoginEnded']_vars
    /\ (login_pc \in {"new", "token", "password"} ~> LoginEnded)

C21_Witness ==
    /\ login_pc = "raised"
    /\ login_calls = LoginMaxRetries
    /\ waits = <<30, 60>>
    /\ last_outcome = "server_error"

\* C22: retry_on_login_required calls the operation at most max_retries + 1
\* times and re-authenticates at most max_retries times, whatever errors the
\* calls raise; an error of no retried kind is raised at once; and the call
\* always ends by returning or raising.
C22_RetryBounded ==
    /\ [](/\ retry_calls <= MaxSendRetries + 1
          /\ retry_reauths <= MaxSendRetries
          /\ \A i \in 1..Len(retry_errors) :
                retry_errors[i].kind = "other" => retry_errors[i].then = "raise"
          /\ retry_pc = "raised" <=>
                (retry_errors # <<>>
                   /\ retry_errors[Len(retry_errors)].then = "raise"))
    /\ (retry_pc = "call" ~> retry_pc \in {"returned", "raised"})

C22_Witness ==
    /\ retry_pc = "raised"
    /\ retry_calls = MaxSendRetries + 1
    /\ retry_reauths = MaxSendRetries
    /\ retry_errors[1].then = "relogin"
    /\ retry_errors[2].then = "login"

\* C23: nothing that happens while one target is processed ends the run: the
\* worker goes on to the next target (or, after an answered verification
\* challenge, to the same target again) and no complete event is emitted.
C23_TargetErrorsContained ==
    [][\A w \in WorkerIds :
          run_pc[w] \in {"target", "challenge"}
              => /\ run_pc'[w] \in {"target", "challenge", "loop"}
                 /\ complete_log'[w] = complete_log[w]
                 /\ run_pc'[w] = "loop" => idx'[w] = idx[w] + 1]_vars

C23_Witness ==
    \E w \in WorkerIds :
        /\ run_pc[w] = "loop"
        /\ idx[w] = 2
        /\ auth_failure[w]
        /\ delivered[users[w][1]] = 0
        /\ delivered[users[w][2]] = 1

\* C24: a password attempt that meets a challenge which neither method
\* resolves deletes both fingerprint files and the session file and makes
\* login() return False with no further attempt; without a callback the
\* callback is not waited on.
C24_UnresolvedChallengeFails ==
    [][(login_calls' = login_calls + 1 /\ last_outcome' = "challenge"
          /\ login_pc' # "true")
          => /\ ua_file' = 0 /\ device_file' = 0 /\ ~session_file'
             /\ login_pc' = "false"
             /\ ~has_callback => callback_calls' = 0]_vars

C24_Witness ==
    /\ login_pc = "false"
    /\ last_outcome = "challenge"
    /\ has_callback
    /\ callback_calls = 4
    /\ login_calls = 2
    /\ ua_file = 0 /\ device_file = 0 /\ ~session_file

\* C25: whenever the poller broadcasts an error event for a bootstrap that
\* raised, it is one event, the pair is not in the tracking set afterwards,
\* no worker was registered, and the cycle goes on with the remaining pairs.
C25_BootstrapFailureContained ==
    [][(poll_errors' # poll_errors /\ poll_errors' # 0)
          => /\ poll_errors' = poll_errors + 1
             /\ todo # <<>>
             /\ todo' = Tail(todo)
             /\ poll_pc' = "visit"
             /\ <<Head(todo)[2], Head(todo)[1]>> \notin active_campaign_accounts'
             /\ active_workers' = active_workers]_vars

C25_Witness ==
    /\ poll_errors = 2
    /\ poll_pc = "visit"
    /\ todo = <<>>
    /\ active_campaign_accounts = {}

\* C26: follow-ups stay outside the quota: the quota test of a run succeeds
\* only when its initial sends have reached the quota.
C26_FollowUpsOutsideQuota ==
    \A w \in WorkerIds :
        QuotaReached(w) => initial_sends[w] >= message_count[w]

\* C27: a step that messages a target tries every configured follow-up
\* whatever failed before, counts and reports the initial send, counts one more
\* for each follow-up that went out, and leaves the run at the next target
\* without a complete event.
C27_FollowUpFailureOnlyLogged ==
    [][\A w \in WorkerIds :
          initial_sends'[w] = initial_sends[w] + 1
              => /\ Len(fu_log'[w]) = follow_ups[w]
                 /\ successful_messages'[w] =
                        successful_messages[w] + 1 + Successes(fu_log'[w])
                 /\ delivered'[CurrentUser(w)] = delivered[CurrentUser(w)] + 1
                 /\ run_pc'[w] = "loop"
                 /\ idx'[w] = idx[w] + 1
                 /\ complete_log'[w] = complete_log[w]]_vars

C27_Witness ==
    \E w \in WorkerIds :
        /\ fu_log[w] = <<FALSE, TRUE>>
        /\ initial_sends[w] = 2
        /\ successful_messages[w] = 3
        /\ run_pc[w] = "loop"
        /\ idx[w] = 2

\* C28: no thread holds the processed-target lock or the registry mutex
\* while it is inside a platform request, a verification wait or a sleep, and
\* a thread that holds one of them gives it back with its next step.
C28_NoLockAcrossBlocking ==
    /\ [](\A t \in LockThreads :
             lk_pc[t] \in BlockingPcs
                 => shared_lock # t /\ registry_lock # t)
    /\ [][\A t \in LockThreads :
             lk_pc'[t] # lk_pc[t]
                 => /\ shared_lock = t => shared_lock' = Unlocked
                    /\ registry_lock = t => registry_lock' = Unlocked]_vars

\* one worker waits for the registry mutex while another sits in its
\* verification wait and a third party holds the mutex for a stop call
C28_Witness ==
    \E w1, w2 \in WorkerIds :
        /\ lk_pc[w1] = "wait"
        /\ lk_pc[w2] = "lock_get"
        /\ registry_lock = Handler
        /\ lk_op = <<"stop_worker", w1>>
        /\ shared_lock = Unlocked
        /\ lk_processed # {}

\* some configured keyword is a substring of the bio, letter case aside
ContainsKeyword ==
    \E i \in 1..Len(bio_keywords) : Within(Lower(bio_keywords[i]), Lower(bio_text))

FilterOrder == <<"followers", "country", "bio", "gender">>

\* the filter is switched on in this configuration
Enabled(f) ==
    CASE f = "followers" -> TRUE
      [] f = "country" -> country_filter_enabled
      [] f = "bio" -> bio_filter_enabled /\ bio_keywords # <<>>
      [] OTHER -> gender_filter \notin {"", "all"}

\* the target passes the filter
Passes(f) ==
    CASE f = "followers" -> follower_count >= followers_threshold
      [] f = "country" -> country = "" \/ is_first_world_country(country)
      [] f = "bio" -> bio_contains_keywords(bio_text, bio_keywords)
      [] OTHER -> detected_gender \in {"unknown", gender_filter}

\* the enabled filters among the first k of the order, in order
RECURSIVE EnabledUpTo(_)
EnabledUpTo(k) ==
    IF k = 0 THEN <<>>
    ELSE IF Enabled(FilterOrder[k])
         THEN Append(EnabledUpTo(k - 1), FilterOrder[k])
         ELSE EnabledUpTo(k - 1)

\* C30: a message is composed and delivery attempted only after every enabled
\* filter was evaluated in the fixed order and passed; a skipped target was
\* skipped by the first enabled filter it fails, with no later filter
\* evaluated, no message composed and no delivery attempt.
C30_FiltersShortCircuit ==
    /\ flt_pc \in {"compose", "send", "sent", "failed"}
           => /\ flt_log = EnabledUpTo(4)
              /\ \A k \in 1..4 : Enabled(FilterOrder[k]) => Passes(FilterOrder[k])
              /\ flt_failed = "none"
    /\ (flt_composed \/ flt_attempts > 0)
           => flt_pc \in {"send", "sent", "failed"}
    /\ (flt_pc = "skipped" \/ flt_failed # "none")
           => \E k \in 1..4 :
                  /\ flt_failed = FilterOrder[k]
                  /\ flt_pc = "skipped"
                  /\ Enabled(FilterOrder[k]) /\ ~Passes(FilterOrder[k])
                  /\ \A j \in 1..(k - 1) :
                         Enabled(FilterOrder[j]) => Passes(FilterOrder[j])
                  /\ flt_log = EnabledUpTo(k)
                  /\ ~flt_composed /\ flt_attempts = 0

\* a target stopped by the bio filter while the gender filter, which it would
\* fail too, is never evaluated
C30_Witness ==
    /\ flt_pc = "skipped"
    /\ flt_failed = "bio"
    /\ flt_log = <<"followers", "country", "bio">>
    /\ gender_filter = "female" /\ detected_gender = "male"
    /\ ~flt_composed /\ flt_attempts = 0

\* C31: in the resolution of an imported list, the sleep before a lookup
\* grows linearly with the consecutive failures and stays within 300
\* seconds whatever their number, as does the sleep on a rate limit, and a
\* successful lookup brings the count of consecutive failures back to 0.
C31_LookupDelayCapped ==
    /\ lead_pc = "lookup" /\ lead_row > 1
          => /\ lead_delay >= base_min(consecutive_errors)
             /\ lead_delay <= base_max(consecutive_errors)
    /\ lead_delay <= 300
    /\ lead_backoff <= 300
    /\ lead_pc = "rows" /\ lead_outcome = "ok" => consecutive_errors = 0

\* C32: every initial delivery to a target, the first of a run included,
\* comes after a session probe and after a dm delay slept on the provider.
C32_ProbeAndDelayBeforeDelivery ==
    \A i \in 1..Len(dlv_log) : dlv_log[i].probed /\ dlv_log[i].slept

\* C33: while the thread of a registered worker that was not asked to stop
\* executes its run, from its start to its completion callback, the status
\* of the worker in the registry is "starting" or "running", also after the
\* worker reported an error it recovered from; the poller's active pairs and
\* the Reply Monitor's running workers then include it.
C33_ExecutingWorkerIsActive ==
    \A w \in WorkerIds :
        (/\ thread_state[w] \in {"started", "running"}
         /\ w \in active_workers
         /\ worker_info[w].status # "stopped")
        => /\ worker_info[w].status \in {"starting", "running"}
           /\ <<worker_info[w].username, worker_info[w].campaign_id>>
                  \in ActiveCombos
           /\ w \in RunningWorkers

\* the campaign is running, the account is assigned to it and has a
\* password, no worker of the pair is executing, and a worker id is left
Missing(a, c) ==
    /\ campaign_status[c] = "running"
    /\ FirstAssigned[a] = c
    /\ ExecutingWorkers(a, c) = {}
    /\ next_id <= MaxWorkers

\* C34: a pair whose campaign stays running, whose account is assigned and
\* has credentials and which has no executing worker gets a worker from the
\* Campaign Poller, also after an earlier worker of the pair finished and
\* the campaign was set running again.
C34_MissingWorkerLaunched ==
    \A a \in Accounts, c \in Campaigns : Missing(a, c) ~> ~Missing(a, c)

\* C35: when set_challenge_code answered True for a worker during its
\* verification wait, the callback of that worker returns the code that was
\* stored, and not a denial, however the supply falls between the timeout
\* of the wait, the read of the code and the removal of the slot.
C35_AcceptedCodeReturned ==
    \A w \in WorkerIds :
        (chal_pc[w] = "returned" /\ slot_code[w] # Null)
            => chal_result[w] = slot_code[w]

\* C36: from the emission of need_2fa for a worker to the end of its
\* verification wait the registry holds a pending slot for the worker, so a
\* code supplied in answer to the event is accepted.
C36_SlotWhileNotified ==
    \A w \in WorkerIds :
        (need_2fa[w] /\ chal_pc[w] \in {"emitted", "created", "waiting"})
            => w \in pending_challenges

\* C37: however the on_message_sent callbacks of concurrent workers of one
\* campaign interleave, the stored messages_sent counter has grown by the
\* number of message_sent events emitted for the campaign once no update is
\* under way: no increment is lost.
C37_NoIncrementLost ==
    (\A w \in WorkerIds : cnt_pc[w] = "idle") => messages_sent = sent_events

\* C38: over the passes of the Reply Monitor a message of the counterparty
\* is recorded and emitted as new_reply at most once, and a message written
\* by the monitored account is never recorded.
C38_ReplyRecordedOnce ==
    \A m \in 1..Len(inbox) :
        /\ recorded[m] <= 1
        /\ inbox[m] = "me" => recorded[m] = 0

\* the processed set never loses an id; an id is in the set as soon as a
\* worker has passed the check for it, before the filters and the delivery;
\* no second worker passes the check for it, whatever became of the target
ProcessedGrowsAndSkips ==
    /\ [][rc_processed \subseteq rc_processed']_vars
    /\ [](\A u \in Targets :
            /\ rc_handled[u] <= 1
            /\ (rc_handled[u] = 1 \/ rc_outcome[u] # "none") => u \in rc_processed)
    /\ [](\A w \in WorkerIds :
            rc_pc[w] = "target" => ReachUser(w) \in rc_processed)

\* C39: the processed-target set only grows: an id is inserted the first
\* time a worker reaches it, ahead of filtering and delivery, and is never
\* removed, so that every later worker skips a filtered-out or failed target
\* without a lookup and without a delivery attempt.
C39_ProcessedSkipsAll ==
    /\ ProcessedGrowsAndSkips
    /\ [](\A u \in Targets : rc_late[u] = 0)

\* C39, amended: as above, but a later worker skips the target without the
\* profile lookup of the filters and without a delivery attempt only; a
\* worker on an imported list has looked the handle up before the check, and
\* no other worker has.
C39_ProcessedSkipsAfterCheck ==
    /\ ProcessedGrowsAndSkips
    /\ [](\A u \in Targets :
            rc_late[u] > 0 => \E w \in WorkerIds :
                /\ rc_source[w] = "list"
                /\ rc_idx[w] >= u \/ (ReachUser(w) = u /\ rc_pc[w] = "resolved"))

\* every worker is past target 1, which one of them took and which was
\* filtered out or failed
C39_Witness ==
    /\ \A w \in WorkerIds : rc_idx[w] >= 1
    /\ rc_outcome[1] \in {"filtered", "failed"}
    /\ rc_handled[1] = 1

\* C40: once the completion callback of a worker has returned, the registry
\* has no entry for its id, neither state nor thread handle nor pending
\* slot, and every later get, stop or challenge-code submission for the id
\* answers not found or false.
C40_NoEntryAfterCompletion ==
    /\ [](\A w \in WorkerIds : thread_state[w] = "finished" =>
            /\ w \notin active_workers
            /\ w \notin pending_challenges
            /\ get_worker(w) = NoInfo
            /\ ~stop_worker(w)
            /\ ~set_challenge_code_found(w))
    /\ [][\A w \in WorkerIds, code \in Codes :
            (thread_state[w] = "finished" /\ SubmitChallengeCode(w, code))
                => submit_log' = <<w, code, FALSE>>]_vars
    /\ [][\A w \in WorkerIds :
            thread_state[w] = "finished" => ~StopWorkerGet(w)]_vars

\* a worker that went through a challenge has completed, and a code
\* submitted for it was turned down while another worker still waits
C40_Witness ==
    \E w \in WorkerIds :
        /\ thread_state[w] = "finished"
        /\ worker_info[w].status \in {"completed", "error"}
        /\ Len(submit_log) = 3 /\ submit_log[1] = w /\ ~submit_log[3]
        /\ \E x \in pending_challenges : x # w

====
